---- MODULE Spec2Model ----
(***************************************************************************)
(* Item-data normalization pipeline of the Deadlock item trainer:          *)
(* src/src/utils/itemProcessing.ts and the item assembly of                *)
(* src/src/App.tsx (loadItems).                                            *)
(*                                                                         *)
(* JavaScript values are tagged records (JUndefined, JNull, JStr, JNum,    *)
(* JBool); JavaScript strings are TLA+ strings, on which Len, SubSeq and   *)
(* \o work character by character.                                         *)
(***************************************************************************)
EXTENDS Integers, Sequences, FiniteSets, TLC

VARIABLES
    pc,            \* position of the call under study: "call" -> "done"
    propName,      \* extractStat: propName argument
    prop,          \* extractStat: prop argument
    sectionType,   \* extractStat: sectionType argument
    upgradesMap,   \* extractStat: upgradesMap argument (name -> bonus)
    isConditional, \* extractStat: isConditional argument
    isImportant,   \* extractStat: isImportant argument
    stat,          \* extractStat: returned StatInfo | null
    item,          \* a RawItem of the API payload
    out,           \* what the item-level function under study returned
    allItems,      \* loadItems: the payload the items API answers with
    shopItems,     \* loadItems: the filtered payload
    processed,     \* loadItems: the `processed` array of each run
    cursor,        \* loadItems: index of the element the running pass is at
    items,         \* React state `items`: 0 for the initial [], else the run
                   \* whose `processed` array it refers to
    filteredItems, \* React state `filteredItems`, as `items`
    error,         \* React state `error`
    loading,       \* React state `loading`
    run,           \* how many times loadItems has been started
    currentIndex,  \* React state `currentIndex`
    flippedIndex,  \* React state `flippedIndex`: null or a number
    category,      \* React state `category`
    tier,          \* React state `tier`: null or a number
    sort,          \* React state `sort`
    rendered,      \* the state the last render saw: what its callbacks close over
    currentIndexRef,   \* currentIndexRef.current
    filteredItemsRef,  \* filteredItemsRef.current
    effectDeps,    \* [category, tier, sort] at the last run of the filter/sort effect
    queued         \* how many callbacks have run since the last render

loadVars == <<allItems, shopItems, processed, cursor, items, filteredItems,
              error, loading, run>>

uiVars == <<currentIndex, flippedIndex, category, tier, sort, rendered,
            currentIndexRef, filteredItemsRef, effectDeps, queued>>

vars == <<pc, propName, prop, sectionType, upgradesMap, isConditional,
          isImportant, stat, item, out, loadVars, uiVars>>

statVars == <<propName, prop, sectionType, upgradesMap, isConditional,
              isImportant, stat>>
itemVars == <<item, out>>

-----------------------------------------------------------------------------
(* JavaScript values *)

JUndefined == [k |-> "undefined", s |-> "", n |-> 0, b |-> FALSE]
JNull == [k |-> "null", s |-> "", n |-> 0, b |-> FALSE]
JStr(str) == [k |-> "string", s |-> str, n |-> 0, b |-> FALSE]
JNum(num) == [k |-> "number", s |-> "", n |-> num, b |-> FALSE]
JBool(bool) == [k |-> "boolean", s |-> "", n |-> 0, b |-> bool]
JNaN == [k |-> "nan", s |-> "", n |-> 0, b |-> FALSE]

\* ToBoolean: undefined, null, "", 0, NaN and false are falsy
Truthy(v) ==
    CASE v.k = "undefined" -> FALSE
      [] v.k = "null" -> FALSE
      [] v.k = "nan" -> FALSE
      [] v.k = "string" -> v.s # ""
      [] v.k = "number" -> v.n # 0
      [] v.k = "boolean" -> v.b
      [] OTHER -> TRUE

\* `x || undefined` for a boolean x
TrueOrUndefined(bool) == IF bool THEN JBool(TRUE) ELSE JUndefined

\* `a || b`
JOr(a, b) == IF Truthy(a) THEN a ELSE b

\* `a ?? b`
JCoalesce(a, b) == IF a.k \in {"undefined", "null"} THEN b ELSE a

\* `v || ''` for an optional string field
StrOrEmpty(v) == IF Truthy(v) /\ v.k = "string" THEN v.s ELSE ""

-----------------------------------------------------------------------------
(* String primitives *)

Digit(d) ==
    CASE d = 0 -> "0" [] d = 1 -> "1" [] d = 2 -> "2" [] d = 3 -> "3"
      [] d = 4 -> "4" [] d = 5 -> "5" [] d = 6 -> "6" [] d = 7 -> "7"
      [] d = 8 -> "8" [] d = 9 -> "9"

RECURSIVE NatToString(_)
NatToString(n) ==
    IF n < 10 THEN Digit(n) ELSE NatToString(n \div 10) \o Digit(n % 10)

\* String(n) for an integer
IntToString(n) == IF n < 0 THEN "-" \o NatToString(0 - n) ELSE NatToString(n)

\* String(v)
StringOf(v) ==
    CASE v.k = "string" -> v.s
      [] v.k = "number" -> IntToString(v.n)
      [] v.k = "boolean" -> IF v.b THEN "true" ELSE "false"
      [] v.k = "null" -> "null"
      [] OTHER -> "undefined"

StartsWith(s, p) == Len(p) <= Len(s) /\ SubSeq(s, 1, Len(p)) = p

EndsWith(s, p) ==
    Len(p) <= Len(s) /\ SubSeq(s, Len(s) - Len(p) + 1, Len(s)) = p

\* first index at which p occurs in s, 0 if none
IndexOf(s, p) ==
    LET hits == {i \in 1..(Len(s) - Len(p) + 1) : SubSeq(s, i, i + Len(p) - 1) = p}
    IN IF hits = {} THEN 0 ELSE CHOOSE i \in hits : \A j \in hits : i <= j

Includes(s, p) == IndexOf(s, p) # 0

LowerChar(c) ==
    CASE c = "A" -> "a" [] c = "B" -> "b" [] c = "C" -> "c" [] c = "D" -> "d"
      [] c = "E" -> "e" [] c = "F" -> "f" [] c = "G" -> "g" [] c = "H" -> "h"
      [] c = "I" -> "i" [] c = "J" -> "j" [] c = "K" -> "k" [] c = "L" -> "l"
      [] c = "M" -> "m" [] c = "N" -> "n" [] c = "O" -> "o" [] c = "P" -> "p"
      [] c = "Q" -> "q" [] c = "R" -> "r" [] c = "S" -> "s" [] c = "T" -> "t"
      [] c = "U" -> "u" [] c = "V" -> "v" [] c = "W" -> "w" [] c = "X" -> "x"
      [] c = "Y" -> "y" [] c = "Z" -> "z" [] OTHER -> c

RECURSIVE ToLowerCase(_)
ToLowerCase(s) ==
    IF Len(s) = 0 THEN ""
    ELSE LowerChar(SubSeq(s, 1, 1)) \o ToLowerCase(SubSeq(s, 2, Len(s)))

RECURSIVE TrimStart(_)
TrimStart(s) ==
    IF Len(s) > 0 /\ SubSeq(s, 1, 1) = " " THEN TrimStart(SubSeq(s, 2, Len(s)))
    ELSE s

RECURSIVE TrimEnd(_)
TrimEnd(s) ==
    IF Len(s) > 0 /\ SubSeq(s, Len(s), Len(s)) = " "
    THEN TrimEnd(SubSeq(s, 1, Len(s) - 1))
    ELSE s

\* String.prototype.trim
Trim(s) == TrimEnd(TrimStart(s))

\* s.replace(pat, rep) with a string pattern: the first occurrence only
ReplaceFirst(s, pat, rep) ==
    LET i == IndexOf(s, pat)
    IN IF i = 0 THEN s
       ELSE SubSeq(s, 1, i - 1) \o rep \o SubSeq(s, i + Len(pat), Len(s))

\* s.split(sep)[0]
SplitHead(s, sep) ==
    LET i == IndexOf(s, sep) IN IF i = 0 THEN s ELSE SubSeq(s, 1, i - 1)

\* s.slice(0, -n) for n > 0
SliceOffEnd(s, n) == SubSeq(s, 1, Len(s) - n)

RECURSIVE Join(_, _)
\* parts.join(sep)
Join(parts, sep) ==
    IF Len(parts) = 0 THEN ""
    ELSE IF Len(parts) = 1 THEN parts[1]
    ELSE parts[1] \o sep \o Join(Tail(parts), sep)

-----------------------------------------------------------------------------
(* RawItemProperty and StatInfo *)

NoArray == [isArray |-> FALSE, items |-> <<>>]
ArrayOf(seq) == [isArray |-> TRUE, items |-> seq]

NoScaleFunction ==
    [k |-> "undefined", stat_scale |-> JUndefined, scale_value |-> JUndefined,
     bonus_scale |-> JUndefined, specific_stat_scale_type |-> JUndefined,
     scaling_stats |-> NoArray]

\* a property object with every optional field absent
EmptyProp ==
    [k |-> "object", value |-> JUndefined, label |-> JUndefined,
     prefix |-> JUndefined, postfix |-> JUndefined, icon |-> JUndefined,
     css_class |-> JUndefined, usage_flags |-> NoArray,
     conditional |-> JUndefined, scale_function |-> NoScaleFunction]

\* properties[propName] of a name the item does not define
UndefinedProp == [EmptyProp EXCEPT !.k = "undefined"]
\* a property that is null, or a primitive instead of an object
NullProp == [EmptyProp EXCEPT !.k = "null"]
PrimitiveProp == [EmptyProp EXCEPT !.k = "string"]

\* extractStat's `return null`
NullStat ==
    [k |-> "null", label |-> "", value |-> "", icon |-> JUndefined,
     cssClass |-> JUndefined, scalesWith |-> JUndefined,
     scaleMultiplier |-> JUndefined, section |-> "",
     isConditional |-> JUndefined, isImportant |-> JUndefined,
     hasBuiltInCondition |-> JUndefined]

\* the result slot before extractStat has returned
PendingStat == [NullStat EXCEPT !.k = "pending"]

SCALE_TYPE_MAP ==
    [t \in {"ETechDuration", "ETechRange", "ETechPower", "EWeaponDamage",
            "EBulletDamage", "EBaseAttackDamage", "EMaxHealth", "EHealthRegen",
            "EBulletResist", "ESpiritResist", "EMoveSpeed", "EItemCooldown",
            "EAbilityCooldown", "EChannelDuration"} |->
        CASE t \in {"ETechDuration", "ETechRange", "ETechPower"} -> "Spirit"
          [] t \in {"EWeaponDamage", "EBulletDamage", "EBaseAttackDamage"} -> "Weapon"
          [] t = "EMaxHealth" -> "Max Health"
          [] t = "EHealthRegen" -> "Health Regen"
          [] t = "EBulletResist" -> "Bullet Resist"
          [] t = "ESpiritResist" -> "Spirit Resist"
          [] t = "EMoveSpeed" -> "Move Speed"
          [] t = "EItemCooldown" -> "Item Cooldown"
          [] t = "EAbilityCooldown" -> "Ability Cooldown"
          [] t = "EChannelDuration" -> "Channel Duration"]

getScaleStatName(scaleType) ==
    IF scaleType \in DOMAIN SCALE_TYPE_MAP
    THEN JStr(SCALE_TYPE_MAP[scaleType]) ELSE JUndefined

\* upgradesMap.get(name)
MapGet(map, name) == IF name \in DOMAIN map THEN map[name] ELSE JUndefined

\* upgradesMap.set(name, bonus)
MapSet(map, name, bonus) ==
    [x \in (DOMAIN map) \cup {name} |-> IF x = name THEN bonus ELSE map[x]]

EmptyMap == [x \in {} |-> JUndefined]

-----------------------------------------------------------------------------
(* extractStat *)

\* the emptiness test without the string '0'
IsNothing_MissesZeroString(value) ==
    \/ value.k \in {"undefined", "null"}
    \/ value.k = "string" /\ value.s = ""
    \/ value.k = "number" /\ value.n = 0

\* value === undefined || value === null || value === '0' || value === 0 || value === ''
IsNothing(value) ==
    \/ value.k \in {"undefined", "null"}
    \/ value.k = "string" /\ value.s \in {"0", ""}
    \/ value.k = "number" /\ value.n = 0

\* a bonus that overrides the base value whenever the map holds one
ResolveValue_BonusOverrides(value, bonusValue) ==
    IF Truthy(bonusValue) THEN bonusValue ELSE value

\* the bonus value is used only if the base value is 0 or empty
ResolveValue(value, bonusValue) ==
    IF IsNothing(value) /\ Truthy(bonusValue) THEN bonusValue ELSE value

\* {s:sign} is + for non-negative values only
\* the prefix with the sign placeholder always read as '+'
ApplyPrefix_AlwaysPlus(p, displayValue) ==
    IF Truthy(p.prefix)
    THEN ReplaceFirst(p.prefix.s, "{s:sign}", "+") \o displayValue
    ELSE displayValue

ApplyPrefix(p, displayValue) ==
    IF Truthy(p.prefix)
    THEN LET isNegative == StartsWith(displayValue, "-")
             signReplacement == IF isNegative THEN "" ELSE "+"
         IN ReplaceFirst(p.prefix.s, "{s:sign}", signReplacement) \o displayValue
    ELSE displayValue

\* the postfix appended unless the value ends with the whole postfix
ApplyPostfix_NoBaseUnit(p, displayValue) ==
    IF Truthy(p.postfix)
    THEN IF EndsWith(Trim(displayValue), Trim(p.postfix.s)) THEN displayValue
         ELSE displayValue \o p.postfix.s
    ELSE displayValue

\* append the postfix unless the value already carries the unit
ApplyPostfix(p, displayValue) ==
    IF Truthy(p.postfix)
    THEN LET trimmedPostfix == Trim(p.postfix.s)
             trimmedValue == Trim(displayValue)
             baseUnit == Trim(SplitHead(trimmedPostfix, "/"))
         IN IF EndsWith(trimmedValue, trimmedPostfix) THEN displayValue
            ELSE IF baseUnit # "" /\ EndsWith(trimmedValue, baseUnit)
            THEN Trim(SliceOffEnd(trimmedValue, Len(baseUnit))) \o " " \o trimmedPostfix
            ELSE displayValue \o p.postfix.s
    ELSE displayValue

\* the multiplier taken from the first truthy field instead of the first set one
ScaleMultiplier_FirstTruthy(p) ==
    IF p.scale_function.k = "object"
    THEN LET sf == p.scale_function
             multiplierValue == JOr(JOr(sf.stat_scale, sf.scale_value), sf.bonus_scale)
         IN IF multiplierValue.k = "number" /\ multiplierValue.n > 0
            THEN multiplierValue ELSE JUndefined
    ELSE JUndefined

\* sf.stat_scale ?? sf.scale_value ?? sf.bonus_scale, kept when a positive number
ScaleMultiplier(p) ==
    IF p.scale_function.k = "object"
    THEN LET sf == p.scale_function
             multiplierValue ==
                 JCoalesce(JCoalesce(sf.stat_scale, sf.scale_value), sf.bonus_scale)
         IN IF multiplierValue.k = "number" /\ multiplierValue.n > 0
            THEN multiplierValue ELSE JUndefined
    ELSE JUndefined

RECURSIVE FirstScaleName(_)
\* the loop over sf.scaling_stats: the first name the map resolves
FirstScaleName(stats) ==
    IF Len(stats) = 0 THEN JUndefined
    ELSE IF Truthy(getScaleStatName(Head(stats))) THEN getScaleStatName(Head(stats))
    ELSE FirstScaleName(Tail(stats))

\* the name resolution that goes on to scaling_stats when the specific type
\* is unknown
ScalesWith_ListFallback(p) ==
    IF ScaleMultiplier(p).k = "number"
    THEN LET sf == p.scale_function
             specific == IF Truthy(sf.specific_stat_scale_type)
                         THEN getScaleStatName(sf.specific_stat_scale_type.s)
                         ELSE JUndefined
         IN IF Truthy(specific) THEN specific
            ELSE IF sf.scaling_stats.isArray
            THEN FirstScaleName(sf.scaling_stats.items)
            ELSE JUndefined
    ELSE JUndefined

ScalesWith(p) ==
    IF ScaleMultiplier(p).k = "number"
    THEN LET sf == p.scale_function
         IN IF Truthy(sf.specific_stat_scale_type)
            THEN getScaleStatName(sf.specific_stat_scale_type.s)
            ELSE IF sf.scaling_stats.isArray
            THEN FirstScaleName(sf.scaling_stats.items)
            ELSE JUndefined
    ELSE JUndefined

\* Array.isArray(prop.usage_flags) && prop.usage_flags.includes('ConditionallyApplied')
HasConditionalFlag(p) ==
    /\ p.usage_flags.isArray
    /\ \E i \in 1..Len(p.usage_flags.items) :
           p.usage_flags.items[i] = "ConditionallyApplied"

ConditionAlreadyInLabel(p) == Truthy(p.conditional)

\* the marker policy without its passive-section clause
ShouldMarkConditional_NoPassiveClause(p, secType, isCond, isImp) ==
    \/ isCond
    \/ /\ HasConditionalFlag(p)
       /\ ~ConditionAlreadyInLabel(p)
       /\ isImp /\ p.css_class = JStr("slow")

\* the marker policy that marks a stat even when the condition is in its label
ShouldMarkConditional_IgnoresBuiltIn(p, secType, isCond, isImp) ==
    \/ isCond
    \/ /\ HasConditionalFlag(p)
       /\ ((isImp /\ p.css_class = JStr("slow")) \/ secType = "passive")

ShouldMarkConditional(p, secType, isCond, isImp) ==
    LET isImportantEnemyDebuff == isImp /\ p.css_class = JStr("slow")
        isPassiveSection == secType = "passive"
    IN \/ isCond
       \/ /\ HasConditionalFlag(p)
          /\ ~ConditionAlreadyInLabel(p)
          /\ (isImportantEnemyDebuff \/ isPassiveSection)

extractStat(name, p, secType, map, isCond, isImp) ==
    IF p.k # "object" THEN NullStat
    ELSE LET value == ResolveValue(p.value, MapGet(map, name))
         IN IF IsNothing(value) THEN NullStat
            ELSE IF ~Truthy(p.label) THEN NullStat
            ELSE [k |-> "object",
                  label |-> StringOf(p.label),
                  value |-> ApplyPostfix(p, ApplyPrefix(p, StringOf(value))),
                  icon |-> p.icon,
                  cssClass |-> p.css_class,
                  scalesWith |-> ScalesWith(p),
                  scaleMultiplier |-> ScaleMultiplier(p),
                  section |-> secType,
                  isConditional |-> TrueOrUndefined(ShouldMarkConditional(p, secType, isCond, isImp)),
                  isImportant |-> TrueOrUndefined(isImp),
                  hasBuiltInCondition |-> TrueOrUndefined(ConditionAlreadyInLabel(p))]

-----------------------------------------------------------------------------
(* RawItem *)

NoDescription ==
    [k |-> "undefined", desc |-> JUndefined, passive_desc |-> JUndefined,
     passive |-> JUndefined, active_desc |-> JUndefined, active |-> JUndefined,
     english |-> JUndefined, tooltip |-> JUndefined]

EmptyDescription == [NoDescription EXCEPT !.k = "object"]

NoProperties == [k |-> "undefined", fields |-> [x \in {} |-> EmptyProp]]

\* an item of the API payload with every optional field absent
EmptyItem ==
    [id |-> 1, name |-> JUndefined, class_name |-> JUndefined,
     shopable |-> JBool(TRUE), disabled |-> JUndefined,
     shop_image |-> JStr("a.png"), shop_image_webp |-> JUndefined,
     item_slot_type |-> JUndefined, item_tier |-> JUndefined,
     cost |-> JUndefined, properties |-> NoProperties,
     tooltip_sections |-> NoArray, upgrades |-> NoArray,
     component_items |-> NoArray, description |-> NoDescription,
     activation |-> JUndefined, is_active_item |-> JUndefined,
     imbue |-> JUndefined]

\* `list || []`
ListOrEmpty(a) == IF a.isArray THEN a.items ELSE <<>>

\* item.properties || {}
PropertiesOrEmpty(it) == it.properties.fields

\* properties[propName]
PropAt(fields, name) ==
    IF name \in DOMAIN fields THEN fields[name] ELSE UndefinedProp

\* item.properties?.<name>?.value
OptionalPropValue(it, name) ==
    LET p == PropAt(it.properties.fields, name)
    IN IF it.properties.k = "object" /\ p.k = "object" THEN p.value ELSE JUndefined

-----------------------------------------------------------------------------
(* Classification heuristics *)

DigitValue(c) ==
    CASE c = "0" -> 0 [] c = "1" -> 1 [] c = "2" -> 2 [] c = "3" -> 3
      [] c = "4" -> 4 [] c = "5" -> 5 [] c = "6" -> 6 [] c = "7" -> 7
      [] c = "8" -> 8 [] c = "9" -> 9 [] OTHER -> -1

AllDigits(s) == \A i \in 1..Len(s) : DigitValue(SubSeq(s, i, i)) >= 0

RECURSIVE DigitsToNat(_)
DigitsToNat(s) ==
    IF Len(s) = 0 THEN 0
    ELSE 10 * DigitsToNat(SubSeq(s, 1, Len(s) - 1)) + DigitValue(SubSeq(s, Len(s), Len(s)))

\* Number(v) on the integer forms the costs take: an integer literal is its
\* value, blank is 0, any other text is NaN
NumberOf(v) ==
    CASE v.k = "number" -> v
      [] v.k = "nan" -> v
      [] v.k = "undefined" -> JNaN
      [] v.k = "null" -> JNum(0)
      [] v.k = "boolean" -> JNum(IF v.b THEN 1 ELSE 0)
      [] v.k = "string" ->
            LET str == Trim(v.s)
            IN IF str = "" THEN JNum(0)
               ELSE IF AllDigits(str) THEN JNum(DigitsToNat(str))
               ELSE IF StartsWith(str, "-") /\ Len(str) > 1
                       /\ AllDigits(SubSeq(str, 2, Len(str)))
               THEN JNum(0 - DigitsToNat(SubSeq(str, 2, Len(str))))
               ELSE JNaN

extractCost(it) ==
    LET cost == JOr(it.cost,
                  JOr(OptionalPropValue(it, "AbilityResourceCost"),
                    JOr(OptionalPropValue(it, "m_nAbilityPointsCost"),
                      JOr(OptionalPropValue(it, "Cost"), JNum(0)))))
    IN JOr(NumberOf(cost), JNum(0))

\* the class-name stage with the tier codes tried from 1 up to 5
ClassNameTier_Ascending(className) ==
    IF Includes(className, "t1_") \/ Includes(className, "tier1") THEN 1
    ELSE IF Includes(className, "t2_") \/ Includes(className, "tier2") THEN 2
    ELSE IF Includes(className, "t3_") \/ Includes(className, "tier3") THEN 3
    ELSE IF Includes(className, "t4_") \/ Includes(className, "tier4") THEN 4
    ELSE IF Includes(className, "t5_") \/ Includes(className, "tier5") THEN 5
    ELSE 0

\* the class-name stage of determineTier: 0 when no tier code occurs
ClassNameTier(className) ==
    IF Includes(className, "t5_") \/ Includes(className, "tier5") THEN 5
    ELSE IF Includes(className, "t4_") \/ Includes(className, "tier4") THEN 4
    ELSE IF Includes(className, "t3_") \/ Includes(className, "tier3") THEN 3
    ELSE IF Includes(className, "t2_") \/ Includes(className, "tier2") THEN 2
    ELSE IF Includes(className, "t1_") \/ Includes(className, "tier1") THEN 1
    ELSE 0

\* the cost stage without a lowest bucket
CostTier_NoFloor(cost) ==
    IF cost >= 10000 THEN 5
    ELSE IF cost >= 6000 THEN 4
    ELSE IF cost >= 3000 THEN 3
    ELSE IF cost >= 1250 THEN 2
    ELSE 0

\* the cost stage of determineTier
CostTier(cost) ==
    IF cost >= 10000 THEN 5
    ELSE IF cost >= 6000 THEN 4
    ELSE IF cost >= 3000 THEN 3
    ELSE IF cost >= 1250 THEN 2
    ELSE 1

determineTier(it) ==
    IF Truthy(it.item_tier) THEN it.item_tier
    ELSE LET className == ToLowerCase(StrOrEmpty(it.class_name))
         IN IF ClassNameTier(className) # 0 THEN JNum(ClassNameTier(className))
            ELSE JNum(CostTier(extractCost(it).n))

\* the slot-type test with the armor/vitality words tried first
determineType_VitalityFirst(it) ==
    LET itemSlotType == ToLowerCase(StrOrEmpty(it.item_slot_type))
    IN IF Includes(itemSlotType, "armor") \/ Includes(itemSlotType, "vitality")
       THEN "vitality"
       ELSE IF Includes(itemSlotType, "tech") \/ Includes(itemSlotType, "spirit")
       THEN "spirit"
       ELSE "weapon"

determineType(it) ==
    LET itemSlotType == ToLowerCase(StrOrEmpty(it.item_slot_type))
    IN IF Includes(itemSlotType, "weapon") THEN "weapon"
       ELSE IF Includes(itemSlotType, "armor") \/ Includes(itemSlotType, "vitality")
       THEN "vitality"
       ELSE IF Includes(itemSlotType, "tech") \/ Includes(itemSlotType, "spirit")
       THEN "spirit"
       ELSE "weapon"

-----------------------------------------------------------------------------
(* Stats aggregator, content blocks *)

RECURSIVE UpgradeEntries_FirstWins(_, _)
\* the inner loop that keeps the first bonus registered under a name
UpgradeEntries_FirstWins(map, entries) ==
    IF Len(entries) = 0 THEN map
    ELSE LET e == Head(entries)
         IN UpgradeEntries_FirstWins(
                IF Truthy(e.name) /\ Truthy(e.bonus) /\ e.name.s \notin DOMAIN map
                THEN MapSet(map, e.name.s, e.bonus) ELSE map,
                Tail(entries))

RECURSIVE UpgradeEntries(_, _)
\* the inner loop over upgrade.property_upgrades
UpgradeEntries(map, entries) ==
    IF Len(entries) = 0 THEN map
    ELSE LET e == Head(entries)
         IN UpgradeEntries(
                IF Truthy(e.name) /\ Truthy(e.bonus)
                THEN MapSet(map, e.name.s, e.bonus) ELSE map,
                Tail(entries))

RECURSIVE UpgradeLoop(_, _)
\* the outer loop over upgrades
UpgradeLoop(map, upgrades) ==
    IF Len(upgrades) = 0 THEN map
    ELSE UpgradeLoop(
             UpgradeEntries(map, ListOrEmpty(Head(upgrades).property_upgrades)),
             Tail(upgrades))

BuildUpgradesMap(upgrades) == UpgradeLoop(EmptyMap, ListOrEmpty(upgrades))

RECURSIVE StatsOfNames(_, _, _, _, _, _)
\* one of the three loops over an attribute's property names
StatsOfNames(names, fields, statSection, map, isCond, isImp) ==
    IF Len(names) = 0 THEN <<>>
    ELSE LET st == extractStat(Head(names), PropAt(fields, Head(names)),
                               statSection, map, isCond, isImp)
         IN (IF st.k = "object" THEN <<st>> ELSE <<>>)
                \o StatsOfNames(Tail(names), fields, statSection, map, isCond, isImp)

\* elevated, then important (isImportant = true), then regular properties
AttrStats(attr, fields, statSection, map, isCond) ==
    StatsOfNames(ListOrEmpty(attr.elevated_properties), fields, statSection, map, isCond, FALSE)
        \o StatsOfNames(ListOrEmpty(attr.important_properties), fields, statSection, map, isCond, TRUE)
        \o StatsOfNames(ListOrEmpty(attr.properties), fields, statSection, map, isCond, FALSE)

\* the section tag that leaves untyped sections 'innate'
StatsSectionTag_UntypedInnate(secType) ==
    IF secType = JStr("active") THEN "active"
    ELSE IF secType = JStr("passive") \/ secType = JStr("conditional") THEN "passive"
    ELSE "innate"

\* the section tag extractStats gives a section type
StatsSectionTag(secType) ==
    IF secType = JStr("active") THEN "active"
    ELSE IF secType = JStr("passive") \/ secType = JStr("conditional") \/ ~Truthy(secType)
    THEN (IF secType # JStr("innate") THEN "passive" ELSE "innate")
    ELSE "innate"

RECURSIVE SectionStats(_, _, _, _, _)
SectionStats(attrs, fields, statSection, map, isCond) ==
    IF Len(attrs) = 0 THEN <<>>
    ELSE AttrStats(Head(attrs), fields, statSection, map, isCond)
             \o SectionStats(Tail(attrs), fields, statSection, map, isCond)

RECURSIVE StatsLoop(_, _, _)
StatsLoop(sections, fields, map) ==
    IF Len(sections) = 0 THEN <<>>
    ELSE LET secType == Head(sections).section_type
             isCond == secType = JStr("conditional")
         IN SectionStats(ListOrEmpty(Head(sections).section_attributes), fields,
                         StatsSectionTag(secType), map, isCond)
                \o StatsLoop(Tail(sections), fields, map)

extractStats(fields, tooltipSections, upgrades) ==
    StatsLoop(ListOrEmpty(tooltipSections), fields, BuildUpgradesMap(upgrades))

DescriptionBlock(text) == [type |-> "description", text |-> text, stats |-> <<>>]
StatsBlock(stats) == [type |-> "stats", text |-> "", stats |-> stats]

\* the bucket ("active", "passive" or "skip") and the tag extractContentBlocks
\* gives a section type
BlocksTarget(secType) ==
    IF secType = JStr("active") THEN [bucket |-> "active", statSection |-> "active"]
    ELSE IF secType = JStr("passive") \/ secType = JStr("conditional") \/ ~Truthy(secType)
    THEN [bucket |-> "passive",
          statSection |-> IF secType = JStr("innate") THEN "innate" ELSE "passive"]
    ELSE IF secType = JStr("innate") THEN [bucket |-> "skip", statSection |-> "innate"]
    ELSE [bucket |-> "passive", statSection |-> "passive"]

RECURSIVE SectionBlocks_StatsFirst(_, _, _, _, _)
\* the blocks of one section with each attribute's stats ahead of its text
SectionBlocks_StatsFirst(attrs, fields, statSection, map, isCond) ==
    IF Len(attrs) = 0 THEN <<>>
    ELSE LET attr == Head(attrs)
             attrStats == AttrStats(attr, fields, statSection, map, isCond)
         IN (IF Len(attrStats) > 0 THEN <<StatsBlock(attrStats)>> ELSE <<>>)
                \o (IF Truthy(attr.loc_string) THEN <<DescriptionBlock(attr.loc_string.s)>> ELSE <<>>)
                \o SectionBlocks_StatsFirst(Tail(attrs), fields, statSection, map, isCond)

RECURSIVE SectionBlocks(_, _, _, _, _)
\* the blocks one section pushes: per attribute, its description then its stats
SectionBlocks(attrs, fields, statSection, map, isCond) ==
    IF Len(attrs) = 0 THEN <<>>
    ELSE LET attr == Head(attrs)
             attrStats == AttrStats(attr, fields, statSection, map, isCond)
         IN (IF Truthy(attr.loc_string) THEN <<DescriptionBlock(attr.loc_string.s)>> ELSE <<>>)
                \o (IF Len(attrStats) > 0 THEN <<StatsBlock(attrStats)>> ELSE <<>>)
                \o SectionBlocks(Tail(attrs), fields, statSection, map, isCond)

RECURSIVE BlocksLoop(_, _, _, _)
\* the blocks pushed to one bucket, over all sections
BlocksLoop(sections, fields, map, bucket) ==
    IF Len(sections) = 0 THEN <<>>
    ELSE LET secType == Head(sections).section_type
             target == BlocksTarget(secType)
         IN (IF target.bucket = bucket
             THEN SectionBlocks(ListOrEmpty(Head(sections).section_attributes), fields,
                                target.statSection, map, secType = JStr("conditional"))
             ELSE <<>>)
                \o BlocksLoop(Tail(sections), fields, map, bucket)

extractContentBlocks(fields, tooltipSections, upgrades) ==
    LET map == BuildUpgradesMap(upgrades)
        sections == ListOrEmpty(tooltipSections)
    IN [activeBlocks |-> BlocksLoop(sections, fields, map, "active"),
        passiveBlocks |-> BlocksLoop(sections, fields, map, "passive")]

-----------------------------------------------------------------------------
(* Description reconciler *)

\* /<img/i.test(s) || /<span class="inline-attribute/i.test(s)
IsRich(s) ==
    \/ Includes(ToLowerCase(s), "<img")
    \/ Includes(ToLowerCase(s), "<span class=\"inline-attribute")

RECURSIVE AttrLocStrings(_)
AttrLocStrings(attrs) ==
    IF Len(attrs) = 0 THEN <<>>
    ELSE (IF Truthy(Head(attrs).loc_string) THEN <<Head(attrs).loc_string.s>> ELSE <<>>)
             \o AttrLocStrings(Tail(attrs))

RECURSIVE LocStrings(_, _)
\* the loc_strings pushed to activeDescriptions (bucket "active") or to
\* passiveDescriptions (bucket "passive")
LocStrings(sections, bucket) ==
    IF Len(sections) = 0 THEN <<>>
    ELSE LET secType == Head(sections).section_type
             target ==
                 IF secType = JStr("active") THEN "active"
                 ELSE IF secType = JStr("passive") \/ secType = JStr("conditional")
                         \/ ~Truthy(secType)
                 THEN "passive"
                 ELSE "none"
         IN (IF target = bucket
             THEN AttrLocStrings(ListOrEmpty(Head(sections).section_attributes))
             ELSE <<>>)
                \o LocStrings(Tail(sections), bucket)

HasActiveAbility(it) ==
    LET activationType == ToLowerCase(StrOrEmpty(it.activation))
    IN \/ it.is_active_item = JBool(TRUE)
       \/ /\ activationType # ""
          /\ activationType # "none"
          /\ activationType # "passive"

HasOnlyActiveSections(it) ==
    LET sections == ListOrEmpty(it.tooltip_sections)
    IN /\ Len(sections) > 0
       /\ \A i \in 1..Len(sections) : sections[i].section_type = JStr("active")

\* the passive chain that takes the main description whenever the item is not
\* active-capable, also when its sections are all 'active'
PassiveChain_IgnoresOnlyActive(passiveDesc, mainDesc, locPassiveDesc, hasActiveAbility, hasOnlyActiveSections) ==
    IF IsRich(passiveDesc) THEN passiveDesc
    ELSE IF ~hasActiveAbility /\ IsRich(mainDesc) THEN mainDesc
    ELSE IF passiveDesc # "" THEN passiveDesc
    ELSE IF ~hasActiveAbility /\ mainDesc # "" THEN mainDesc
    ELSE IF locPassiveDesc # "" THEN locPassiveDesc
    ELSE ""

\* the passive chain with the main description tried before the passive field
PassiveChain_MainFirst(passiveDesc, mainDesc, locPassiveDesc, hasActiveAbility, hasOnlyActiveSections) ==
    IF ~hasActiveAbility /\ ~hasOnlyActiveSections /\ IsRich(mainDesc) THEN mainDesc
    ELSE IF IsRich(passiveDesc) THEN passiveDesc
    ELSE IF passiveDesc # "" THEN passiveDesc
    ELSE IF ~hasActiveAbility /\ ~hasOnlyActiveSections /\ mainDesc # "" THEN mainDesc
    ELSE IF locPassiveDesc # "" THEN locPassiveDesc
    ELSE ""

\* the if/else-if chain that sets finalPassiveDesc
PassiveChain(passiveDesc, mainDesc, locPassiveDesc, hasActiveAbility, hasOnlyActiveSections) ==
    IF IsRich(passiveDesc) THEN passiveDesc
    ELSE IF ~hasActiveAbility /\ ~hasOnlyActiveSections /\ IsRich(mainDesc) THEN mainDesc
    ELSE IF passiveDesc # "" THEN passiveDesc
    ELSE IF ~hasActiveAbility /\ ~hasOnlyActiveSections /\ mainDesc # "" THEN mainDesc
    ELSE IF locPassiveDesc # "" THEN locPassiveDesc
    ELSE ""

\* the active chain that takes the main description for active-capable items
\* only, not for items whose sections are all 'active'
ActiveChain_IgnoresOnlyActive(activeDesc, mainDesc, locActiveDesc, hasActiveAbility, hasOnlyActiveSections) ==
    IF IsRich(activeDesc) THEN activeDesc
    ELSE IF hasActiveAbility /\ IsRich(mainDesc) THEN mainDesc
    ELSE IF activeDesc # "" THEN activeDesc
    ELSE IF hasActiveAbility /\ mainDesc # "" THEN mainDesc
    ELSE IF locActiveDesc # "" THEN locActiveDesc
    ELSE ""

\* the if/else-if chain that sets finalActiveDesc
ActiveChain(activeDesc, mainDesc, locActiveDesc, hasActiveAbility, hasOnlyActiveSections) ==
    IF IsRich(activeDesc) THEN activeDesc
    ELSE IF (hasActiveAbility \/ hasOnlyActiveSections) /\ IsRich(mainDesc) THEN mainDesc
    ELSE IF activeDesc # "" THEN activeDesc
    ELSE IF (hasActiveAbility \/ hasOnlyActiveSections) /\ mainDesc # "" THEN mainDesc
    ELSE IF locActiveDesc # "" THEN locActiveDesc
    ELSE ""

\* the final fallback acting as soon as one of the two descriptions is empty
SafetyNet_EitherEmpty(finalPassive, finalActive, anyDesc, hasActiveAbility) ==
    IF (finalPassive = "" \/ finalActive = "") /\ anyDesc # ""
    THEN IF hasActiveAbility
         THEN [passiveDescription |-> finalPassive, activeDescription |-> anyDesc]
         ELSE [passiveDescription |-> anyDesc, activeDescription |-> finalActive]
    ELSE [passiveDescription |-> finalPassive, activeDescription |-> finalActive]

\* the final fallback that always routes to the passive description
SafetyNet_AlwaysPassive(finalPassive, finalActive, anyDesc, hasActiveAbility) ==
    IF finalPassive = "" /\ finalActive = "" /\ anyDesc # ""
    THEN [passiveDescription |-> anyDesc, activeDescription |-> finalActive]
    ELSE [passiveDescription |-> finalPassive, activeDescription |-> finalActive]

\* the final fallback, given what the two chains produced
SafetyNet(finalPassive, finalActive, anyDesc, hasActiveAbility) ==
    IF finalPassive = "" /\ finalActive = "" /\ anyDesc # ""
    THEN IF hasActiveAbility
         THEN [passiveDescription |-> finalPassive, activeDescription |-> anyDesc]
         ELSE [passiveDescription |-> anyDesc, activeDescription |-> finalActive]
    ELSE [passiveDescription |-> finalPassive, activeDescription |-> finalActive]

extractDescriptions(it) ==
    LET tooltipSections == ListOrEmpty(it.tooltip_sections)
        descObj == it.description
        mainDesc == StrOrEmpty(descObj.desc)
        passiveDesc == StrOrEmpty(JOr(descObj.passive_desc, descObj.passive))
        activeDesc == StrOrEmpty(JOr(descObj.active_desc, descObj.active))
        locPassiveDesc == Join(LocStrings(tooltipSections, "passive"), "<br><br>")
        locActiveDesc == Join(LocStrings(tooltipSections, "active"), "<br><br>")
        hasActiveAbility == HasActiveAbility(it)
        hasOnlyActiveSections == HasOnlyActiveSections(it)
        finalPassiveDesc ==
            PassiveChain(passiveDesc, mainDesc, locPassiveDesc, hasActiveAbility,
                         hasOnlyActiveSections)
        finalActiveDesc ==
            ActiveChain(activeDesc, mainDesc, locActiveDesc, hasActiveAbility,
                        hasOnlyActiveSections)
        anyDesc ==
            StrOrEmpty(JOr(JStr(mainDesc), JOr(JStr(passiveDesc), JOr(JStr(activeDesc),
                JOr(JStr(locPassiveDesc), JOr(JStr(locActiveDesc),
                    JOr(descObj.english, JOr(descObj.tooltip, JStr(""))))))))) 
    IN SafetyNet(finalPassiveDesc, finalActiveDesc, anyDesc, hasActiveAbility)

-----------------------------------------------------------------------------
(* Item assembler: the per-item callback of loadItems *)

UpperChar(c) ==
    CASE c = "a" -> "A" [] c = "b" -> "B" [] c = "c" -> "C" [] c = "d" -> "D"
      [] c = "e" -> "E" [] c = "f" -> "F" [] c = "g" -> "G" [] c = "h" -> "H"
      [] c = "i" -> "I" [] c = "j" -> "J" [] c = "k" -> "K" [] c = "l" -> "L"
      [] c = "m" -> "M" [] c = "n" -> "N" [] c = "o" -> "O" [] c = "p" -> "P"
      [] c = "q" -> "Q" [] c = "r" -> "R" [] c = "s" -> "S" [] c = "t" -> "T"
      [] c = "u" -> "U" [] c = "v" -> "V" [] c = "w" -> "W" [] c = "x" -> "X"
      [] c = "y" -> "Y" [] c = "z" -> "Z" [] OTHER -> c

RECURSIVE Split(_, _)
\* s.split(sep)
Split(s, sep) ==
    LET i == IndexOf(s, sep)
    IN IF i = 0 THEN <<s>>
       ELSE <<SubSeq(s, 1, i - 1)>> \o Split(SubSeq(s, i + Len(sep), Len(s)), sep)

\* word.charAt(0).toUpperCase() + word.slice(1)
Capitalize(word) ==
    IF Len(word) = 0 THEN ""
    ELSE UpperChar(SubSeq(word, 1, 1)) \o SubSeq(word, 2, Len(word))

formatName(className) ==
    LET stripped == IF StartsWith(className, "upgrade_")
                    THEN SubSeq(className, Len("upgrade_") + 1, Len(className))
                    ELSE className
        words == Split(stripped, "_")
    IN Join([i \in 1..Len(words) |-> Capitalize(words[i])], " ")

\* item.name || formatName(item.class_name) throws a TypeError when the name
\* is falsy and class_name is not a string (className.replace is not callable)
CallbackThrows(it) == ~Truthy(it.name) /\ it.class_name.k # "string"

\* item.name || formatName(item.class_name), when it does not throw
DisplayName(it) ==
    IF Truthy(it.name) THEN StringOf(it.name) ELSE formatName(StrOrEmpty(it.class_name))

\* allItemsByClassName.get(className): the last item of the payload with that name
ItemByClassName(payload, className) ==
    LET hits == {i \in 1..Len(payload) : payload[i].class_name = JStr(className)}
    IN IF hits = {} THEN 0 ELSE CHOOSE i \in hits : \A j \in hits : j <= i

\* the component entries without the unknown class names
ComponentItems_DropsUnknown(it, payload) ==
    LET names == SelectSeq(ListOrEmpty(it.component_items),
                           LAMBDA n : ItemByClassName(payload, n) # 0)
    IN [i \in 1..Len(names) |->
            LET c == ItemByClassName(payload, names[i])
            IN [id |-> payload[c].id, name |-> DisplayName(payload[c])]]

\* one entry per component class name; id 0 and the formatted name when unknown
ComponentItems(it, payload) ==
    LET names == ListOrEmpty(it.component_items)
    IN [i \in 1..Len(names) |->
            LET c == ItemByClassName(payload, names[i])
            IN IF c # 0
               THEN [id |-> payload[c].id, name |-> DisplayName(payload[c])]
               ELSE [id |-> 0, name |-> formatName(names[i])]]

\* tooltipSections.some(s => s.section_type is one of types)
SomeSectionOf(it, types) ==
    LET sections == ListOrEmpty(it.tooltip_sections)
    IN \E i \in 1..Len(sections) :
           \E ty \in types : sections[i].section_type = JStr(ty)

HasInnateSection(it) == SomeSectionOf(it, {"innate", "passive", "conditional"})

HasActiveSection(it) == SomeSectionOf(it, {"active"})

IsActive(it) ==
    \/ it.is_active_item = JBool(TRUE)
    \/ ToLowerCase(StrOrEmpty(it.activation))
           \in {"instant_cast", "pressed", "press", "toggle", "channeled"}

\* the stats tagged 'passive', in order
PassiveStats(stats) == SelectSeq(stats, LAMBDA st : st.section = "passive")

HasPassiveSection(it, passiveDescription, activeDescription, passiveStats) ==
    \/ HasInnateSection(it)
    \/ passiveDescription # ""
    \/ /\ Len(passiveStats) > 0
       /\ (HasActiveSection(it) \/ activeDescription # "")

\* `text || undefined`
TextOrUndefined(text) == IF text = "" THEN JUndefined ELSE JStr(text)

Cooldown(it) ==
    LET p == PropAt(it.properties.fields, "AbilityCooldown")
    IN IF IsActive(it) /\ it.properties.k = "object" /\ p.k = "object"
          /\ Truthy(p.value) /\ p.value # JStr("0")
       THEN JStr(StringOf(p.value) \o "s")
       ELSE JUndefined

PassiveCooldown(passiveStats) ==
    LET hits == {i \in 1..Len(passiveStats) : passiveStats[i].label = "Cooldown"}
    IN IF hits = {} THEN JUndefined
       ELSE JStr(passiveStats[CHOOSE i \in hits : \A j \in hits : i <= j].value)

\* the ProcessedItem built from one shop item (upgradesTo still empty)
ProcessShopItem(it, payload) ==
    LET descs == extractDescriptions(it)
        fullDescription ==
            ToLowerCase(descs.passiveDescription \o " " \o descs.activeDescription)
        allStats == extractStats(PropertiesOrEmpty(it), it.tooltip_sections, it.upgrades)
        passiveStats == PassiveStats(allStats)
        blocks == extractContentBlocks(PropertiesOrEmpty(it), it.tooltip_sections, it.upgrades)
    IN [id |-> it.id,
        name |-> it.class_name,
        displayName |-> DisplayName(it),
        image |-> StrOrEmpty(JOr(it.shop_image_webp, it.shop_image)),
        type |-> determineType(it),
        tier |-> JOr(it.item_tier, determineTier(it)),
        cost |-> JOr(it.cost, extractCost(it)),
        stats |-> allStats,
        passiveDescription |-> TextOrUndefined(descs.passiveDescription),
        activeDescription |-> TextOrUndefined(descs.activeDescription),
        activeBlocks |-> blocks.activeBlocks,
        passiveBlocks |-> blocks.passiveBlocks,
        hasPassiveSection |->
            HasPassiveSection(it, descs.passiveDescription, descs.activeDescription,
                              passiveStats),
        isActive |-> IsActive(it),
        isImbue |-> Truthy(it.imbue) \/ Includes(fullDescription, "imbued")
                        \/ Includes(fullDescription, "imbue"),
        cooldown |-> Cooldown(it),
        passiveCooldown |-> PassiveCooldown(passiveStats),
        componentItems |-> ComponentItems(it, payload),
        upgradesTo |-> <<>>]

-----------------------------------------------------------------------------
(* The App component before loadItems has run *)

\* how many times loadItems is started on the same payload
MaxRuns == 2

\* useState initial values; no payload fetched, nothing processed
\* what a render closes over: the React state at the time of the render
Snapshot ==
    [currentIndex |-> currentIndex, flippedIndex |-> flippedIndex,
     filteredItems |-> filteredItems, category |-> category, tier |-> tier,
     sort |-> sort]

\* the deps of the filter/sort effect that the controls can change
FilterDeps(snap) == [category |-> snap.category, tier |-> snap.tier, sort |-> snap.sort]

\* the navigation state of the first render, its effects run
UIIdle ==
    /\ currentIndex = 0
    /\ flippedIndex = JNull
    /\ category = "all"
    /\ tier = JNull
    /\ sort = "default"
    /\ rendered = Snapshot
    /\ currentIndexRef = 0
    /\ filteredItemsRef = filteredItems
    /\ effectDeps = FilterDeps(Snapshot)
    /\ queued = 0

LoadIdle ==
    /\ allItems = <<>>
    /\ shopItems = <<>>
    /\ processed = [r \in 1..MaxRuns |-> <<>>]
    /\ cursor = 0
    /\ items = 0
    /\ filteredItems = 0
    /\ error = JNull
    /\ loading = TRUE
    /\ run = 0
    /\ UIIdle

-----------------------------------------------------------------------------
(* Calls of extractStat *)

NoItem == "no item"
NoResult == "no result"
\* the callback ended in formatName's TypeError
TypeErrorThrown == "TypeError"

\* the property name the calls look up, and another name the map may hold
CalledName == "Foo"
OtherName == "Bar"

\* own values of a property: absent, the five empty/zero forms, and real values
OwnValues ==
    {JUndefined, JNull, JStr(""), JStr("0"), JNum(0),
     JStr("5"), JNum(7), JStr("-3"), JStr("2.5m")}

\* upgrade maps handed to extractStat
UpgradeMaps ==
    {EmptyMap,
     MapSet(EmptyMap, CalledName, JStr("")),
     MapSet(EmptyMap, CalledName, JStr("0")),
     MapSet(EmptyMap, CalledName, JStr("9")),
     MapSet(EmptyMap, CalledName, JStr("-4m")),
     MapSet(EmptyMap, OtherName, JStr("9"))}

Labels == {JUndefined, JStr(""), JStr("Move Speed")}

UsageFlags ==
    {NoArray, ArrayOf(<<>>), ArrayOf(<<"ConditionallyApplied">>),
     ArrayOf(<<"Other">>), ArrayOf(<<"Other", "ConditionallyApplied">>)}

Conditionals == {JUndefined, JStr(""), JStr("While sliding")}

CssClasses == {JUndefined, JStr("slow"), JStr("tech_damage")}

StatSections == {"innate", "passive", "active"}

Prefixes == {JUndefined, JStr("{s:sign}"), JStr("x"), JStr("x{s:sign}")}

Postfixes == {JUndefined, JStr("m/s"), JStr("m"), JStr(" %")}

\* properties that are not objects
NonObjectProps == {UndefinedProp, NullProp, PrimitiveProp}

\* inputs that exercise the conditional-marker policy
CondProps ==
    {[EmptyProp EXCEPT !.value = v, !.label = l, !.usage_flags = f,
                       !.conditional = c, !.css_class = cls] :
        v \in {JStr("0"), JStr("5"), JNum(7)}, l \in {JUndefined, JStr("Move Speed")},
        f \in UsageFlags, c \in Conditionals, cls \in CssClasses}

\* inputs that exercise value resolution and formatting
ValueProps ==
    {[EmptyProp EXCEPT !.value = v, !.label = l, !.prefix = pre, !.postfix = post] :
        v \in OwnValues, l \in Labels, pre \in Prefixes, post \in Postfixes}

StatInitCommon ==
    /\ LoadIdle
    /\ pc = "call"
    /\ propName = CalledName
    /\ stat = PendingStat
    /\ item = NoItem
    /\ out = NoResult

StatInit ==
    /\ StatInitCommon
    /\ prop \in CondProps \cup NonObjectProps
    /\ sectionType \in StatSections
    /\ upgradesMap \in {EmptyMap, MapSet(EmptyMap, CalledName, JStr("9"))}
    /\ isConditional \in BOOLEAN
    /\ isImportant \in BOOLEAN

StatValueInit ==
    /\ StatInitCommon
    /\ prop \in ValueProps \cup NonObjectProps
    /\ sectionType \in {"passive", "active"}
    /\ upgradesMap \in UpgradeMaps
    /\ isConditional = FALSE
    /\ isImportant \in BOOLEAN

\* one call of extractStat on the inputs held in the state
CallExtractStat ==
    /\ pc = "call"
    /\ stat = PendingStat
    /\ stat' = extractStat(propName, prop, sectionType, upgradesMap,
                           isConditional, isImportant)
    /\ pc' = "done"
    /\ UNCHANGED <<uiVars, propName, prop, sectionType, upgradesMap, isConditional,
                   isImportant, item, out, loadVars>>

StatNext == CallExtractStat

\* extractStat on the conditional-marker inputs
SpecStat == StatInit /\ [][StatNext]_vars

\* extractStat on the value-resolution and formatting inputs
SpecStatValue == StatValueInit /\ [][StatNext]_vars

-----------------------------------------------------------------------------
(* Claims about extractStat *)

\* a returned StatInfo (not null)
Returned(st) == st.k = "object"

FlagsContain(p, flag) ==
    p.usage_flags.isArray /\ flag \in {p.usage_flags.items[i] : i \in DOMAIN p.usage_flags.items}

HasConditionalText(p) == p.conditional.k = "string" /\ p.conditional.s # ""

\* the property of the conditional-marker example, apart from its section:
\* labelled, non-zero, flagged ConditionallyApplied, no `conditional`, css 'slow',
\* called with the section-level isConditional argument false
C1_Case ==
    /\ pc = "done"
    /\ prop.k = "object"
    /\ prop.label = JStr("Move Speed")
    /\ prop.value \in {JStr("5"), JNum(7)}
    /\ FlagsContain(prop, "ConditionallyApplied")
    /\ prop.conditional = JUndefined
    /\ prop.css_class = JStr("slow")
    /\ isConditional = FALSE

\* C1 as stated: in a 'passive' section the example property is marked
\* conditional with isImportant = true and is not marked with isImportant = false.
C1_AsStated ==
    (C1_Case /\ sectionType = "passive") =>
        /\ Returned(stat)
        /\ (isImportant => stat.isConditional = JBool(TRUE))
        /\ (~isImportant => stat.isConditional = JUndefined)

\* C1 amended: the example property is marked conditional in a 'passive' section
\* whether isImportant is true or false; with isImportant = false the marker is
\* absent only outside a 'passive' section.
C1_PassiveSectionMarksEitherWay ==
    C1_Case =>
        /\ Returned(stat)
        /\ (sectionType = "passive" => stat.isConditional = JBool(TRUE))
        /\ (isImportant => stat.isConditional = JBool(TRUE))
        /\ (~isImportant /\ sectionType # "passive" => stat.isConditional = JUndefined)

C1_Witness ==
    /\ C1_Case
    /\ sectionType = "passive"
    /\ ~isImportant
    /\ Returned(stat)
    /\ stat.isConditional = JBool(TRUE)

\* C2: on every returned StatInfo, isConditional is true exactly when the
\* isConditional argument is true, or the property is flagged
\* ConditionallyApplied, has no non-empty `conditional` string and is either
\* (important with css_class 'slow') or in a 'passive' section; otherwise it is
\* absent. hasBuiltInCondition is set exactly when `conditional` is non-empty.
C2_ConditionalMarkerPolicy ==
    (pc = "done" /\ Returned(stat)) =>
        LET marked ==
                \/ isConditional
                \/ /\ FlagsContain(prop, "ConditionallyApplied")
                   /\ ~HasConditionalText(prop)
                   /\ \/ isImportant /\ prop.css_class = JStr("slow")
                      \/ sectionType = "passive"
        IN /\ stat.isConditional = (IF marked THEN JBool(TRUE) ELSE JUndefined)
           /\ stat.hasBuiltInCondition =
                  (IF HasConditionalText(prop) THEN JBool(TRUE) ELSE JUndefined)

C2_Witness ==
    /\ pc = "done"
    /\ Returned(stat)
    /\ ~isConditional
    /\ sectionType = "active"
    /\ isImportant
    /\ prop.css_class = JStr("slow")
    /\ stat.isConditional = JBool(TRUE)
    /\ stat.hasBuiltInCondition = JUndefined

\* the five forms of an own value that let the bonus in
OwnValueMissing(p) ==
    p.value \in {JUndefined, JNull, JStr(""), JNum(0), JStr("0")}

NonZeroBonus(b) == b.k = "string" /\ b.s \notin {"", "0"}

-----------------------------------------------------------------------------
(* Calls of determineTier *)

TierValues == {JUndefined, JNum(0), JNum(3)}

TierClassNames ==
    {JUndefined, JStr("upgrade_headshot_booster"), JStr("upgrade_t4_armor"),
     JStr("Upgrade_TIER2_Boots"), JStr("upgrade_t1_tier5"),
     JStr("upgrade_tier3_t2_charm")}

CostValues ==
    {JUndefined, JNum(0), JNum(500), JNum(1249), JNum(1250), JNum(2999),
     JNum(3000), JNum(5999), JNum(6000), JNum(9999), JNum(10000), JStr("6200")}

\* property bags that carry a cost under one of the three property names
CostProperties ==
    {NoProperties,
     [k |-> "object", fields |-> [x \in {"Cost"} |-> [EmptyProp EXCEPT !.value = JStr("3000")]]],
     [k |-> "object", fields |-> [x \in {"Cost"} |-> [EmptyProp EXCEPT !.value = JStr("n/a")]]],
     [k |-> "object",
      fields |-> [x \in {"AbilityResourceCost", "Cost"} |->
                     IF x = "Cost" THEN [EmptyProp EXCEPT !.value = JNum(500)]
                     ELSE [EmptyProp EXCEPT !.value = JNum(12000)]]]}

TierItems ==
    {[EmptyItem EXCEPT !.item_tier = explicitTier, !.class_name = cn, !.cost = c,
                       !.properties = ps] :
        explicitTier \in TierValues, cn \in TierClassNames, c \in CostValues,
        ps \in CostProperties}

\* no call of extractStat is under study
NoStatCall ==
    /\ propName = CalledName
    /\ prop = UndefinedProp
    /\ sectionType = "passive"
    /\ upgradesMap = EmptyMap
    /\ isConditional = FALSE
    /\ isImportant = FALSE
    /\ stat = PendingStat
    /\ out = NoResult

ItemInitCommon ==
    /\ LoadIdle
    /\ NoStatCall

TierInit ==
    /\ ItemInitCommon
    /\ pc = "tier"
    /\ item \in TierItems

\* one call of determineTier on the item held in the state
CallDetermineTier ==
    /\ pc = "tier"
    /\ out' = determineTier(item)
    /\ pc' = "tier done"
    /\ UNCHANGED <<uiVars, statVars, item, loadVars>>

TierNext == CallDetermineTier

SpecTier == TierInit /\ [][TierNext]_vars

-----------------------------------------------------------------------------
(* Claims about determineTier *)

\* the tier codes k whose 't<k>_' or 'tier<k>' occurs in a class name
TierCodesIn(className) ==
    {k \in 1..5 :
        \/ Includes(className, "t" \o IntToString(k) \o "_")
        \/ Includes(className, "tier" \o IntToString(k))}

\* the cost bucket of a numeric cost
CostBucket(cost) ==
    CASE cost >= 10000 -> 5
      [] cost < 10000 /\ cost >= 6000 -> 4
      [] cost < 6000 /\ cost >= 3000 -> 3
      [] cost < 3000 /\ cost >= 1250 -> 2
      [] OTHER -> 1

\* C10 as stated: a present item_tier is returned whatever else the item says;
\* otherwise a class name containing 't<k>_' or 'tier<k>' yields k; otherwise the
\* cost bucket.
C10_AsStated ==
    pc = "tier done" =>
        LET className == StrOrEmpty(item.class_name)
        IN /\ item.item_tier # JUndefined => out = item.item_tier
           /\ item.item_tier = JUndefined =>
                  \A k \in TierCodesIn(className) : out = JNum(k)
           /\ (item.item_tier = JUndefined /\ TierCodesIn(className) = {}) =>
                  out = JNum(CostBucket(extractCost(item).n))

\* C10 amended: a non-zero item_tier is returned whatever the class name and
\* cost say; otherwise (item_tier absent or 0) the largest k in 1..5 whose
\* 't<k>_' or 'tier<k>' occurs in the lower-cased class name is returned whatever
\* the cost; otherwise the cost bucket of extractCost applies.
C10_TierPrecedence ==
    pc = "tier done" =>
        LET className == ToLowerCase(StrOrEmpty(item.class_name))
            codes == TierCodesIn(className)
            explicit == item.item_tier.k = "number" /\ item.item_tier.n # 0
        IN /\ explicit => out = item.item_tier
           /\ (~explicit /\ codes # {}) =>
                  out = JNum(CHOOSE k \in codes : \A j \in codes : j <= k)
           /\ (~explicit /\ codes = {}) =>
                  out = JNum(CostBucket(extractCost(item).n))

C10_Witness ==
    /\ pc = "tier done"
    /\ item.item_tier = JNum(0)
    /\ item.class_name = JStr("upgrade_t1_tier5")
    /\ item.cost = JNum(500)
    /\ out = JNum(5)

-----------------------------------------------------------------------------
(* Calls of extractDescriptions *)

Attr(loc, elevated, important, regular) ==
    [loc_string |-> loc, elevated_properties |-> elevated,
     important_properties |-> important, properties |-> regular]

\* an attribute that carries only a loc_string
TextAttr(text) == Attr(JStr(text), NoArray, NoArray, NoArray)

Section(type, attrs) == [section_type |-> type, section_attributes |-> attrs]

PlainMain == "Gain bonus move speed."
RichMain == "<img src=\"a.png\"> Gain spirit power."
PlainPassive == "Passive: slows enemies."
RichPassive == "<IMG src=\"b.png\"> Slows enemies."
AltPassive == "Older passive text."
PlainActive == "Active: dash forward."
RichActive == "<span class=\"inline-attribute-label\">Dash</span> forward."
AltActive == "Older active text."

\* tooltip sections as the reconciler sees them: types and loc_strings
SecsActiveText == ArrayOf(<<Section(JStr("active"), ArrayOf(<<TextAttr("A1")>>))>>)
SecsActiveBare == ArrayOf(<<Section(JStr("active"), NoArray)>>)
SecsPassiveActive ==
    ArrayOf(<<Section(JStr("passive"), ArrayOf(<<TextAttr("P1")>>)),
              Section(JStr("active"), ArrayOf(<<TextAttr("A1"), TextAttr("A2")>>))>>)
SecsUntypedConditionalInnate ==
    ArrayOf(<<Section(JUndefined, ArrayOf(<<TextAttr("P1")>>)),
              Section(JStr("conditional"), ArrayOf(<<TextAttr("P2")>>)),
              Section(JStr("innate"), ArrayOf(<<TextAttr("I1")>>))>>)
SecsInnate == ArrayOf(<<Section(JStr("innate"), ArrayOf(<<TextAttr("I1")>>))>>)

DescSections ==
    {NoArray, SecsActiveText, SecsActiveBare, SecsPassiveActive,
     SecsUntypedConditionalInnate, SecsInnate}

Descriptions ==
    {[EmptyDescription EXCEPT !.desc = d, !.passive_desc = p, !.passive = p2,
                              !.active_desc = a, !.active = a2,
                              !.english = e, !.tooltip = tt] :
        d \in {JUndefined, JStr(PlainMain), JStr(RichMain)},
        p \in {JUndefined, JStr(PlainPassive), JStr(RichPassive)},
        p2 \in {JUndefined, JStr(AltPassive)},
        a \in {JUndefined, JStr(PlainActive), JStr(RichActive)},
        a2 \in {JUndefined, JStr(AltActive)},
        e \in {JUndefined, JStr("English text.")},
        tt \in {JUndefined, JStr("Tooltip text.")}}

DescItems ==
    {[EmptyItem EXCEPT !.description = d, !.tooltip_sections = secs,
                       !.activation = act, !.is_active_item = flag] :
        d \in Descriptions \cup {NoDescription}, secs \in DescSections,
        act \in {JUndefined, JStr("Passive"), JStr("none"), JStr("instant_cast")},
        flag \in {JUndefined, JBool(TRUE)}}

DescInit ==
    /\ ItemInitCommon
    /\ pc = "descriptions"
    /\ item \in DescItems

\* one call of extractDescriptions on the item held in the state
CallExtractDescriptions ==
    /\ pc = "descriptions"
    /\ out' = extractDescriptions(item)
    /\ pc' = "descriptions done"
    /\ UNCHANGED <<uiVars, statVars, item, loadVars>>

DescNext == CallExtractDescriptions

SpecDesc == DescInit /\ [][DescNext]_vars

-----------------------------------------------------------------------------
(* Claims about extractDescriptions *)

TextOf(v) == IF v.k = "string" THEN v.s ELSE ""

\* the description texts that contain '<img' or '<span class="inline-attribute'
\* in some letter case
RichTexts == {RichMain, RichPassive, RichActive}

MainField(it) == TextOf(it.description.desc)

PassiveField(it) ==
    IF TextOf(it.description.passive_desc) # ""
    THEN TextOf(it.description.passive_desc) ELSE TextOf(it.description.passive)

ActiveField(it) ==
    IF TextOf(it.description.active_desc) # ""
    THEN TextOf(it.description.active_desc) ELSE TextOf(it.description.active)

\* is_active_item === true, or an activation that lower-cased is neither empty
\* nor 'none' nor 'passive'
ActiveCapable(it) ==
    it.is_active_item = JBool(TRUE) \/ it.activation = JStr("instant_cast")

\* at least one tooltip section, all of them 'active'
OnlyActiveSections(it) == it.tooltip_sections \in {SecsActiveText, SecsActiveBare}

PassiveLocText(it) ==
    CASE it.tooltip_sections = SecsPassiveActive -> "P1"
      [] it.tooltip_sections = SecsUntypedConditionalInnate -> "P1<br><br>P2"
      [] OTHER -> ""

ActiveLocText(it) ==
    CASE it.tooltip_sections = SecsActiveText -> "A1"
      [] it.tooltip_sections = SecsPassiveActive -> "A1<br><br>A2"
      [] OTHER -> ""

\* the first-match-wins chain of C5; "" when no step matches
PassiveChainAsClaimed(it) ==
    LET mainAllowed == ~ActiveCapable(it) /\ ~OnlyActiveSections(it)
    IN IF PassiveField(it) \in RichTexts THEN PassiveField(it)
       ELSE IF MainField(it) \in RichTexts /\ mainAllowed THEN MainField(it)
       ELSE IF PassiveField(it) # "" THEN PassiveField(it)
       ELSE IF MainField(it) # "" /\ mainAllowed THEN MainField(it)
       ELSE PassiveLocText(it)

\* the first-match-wins chain of C6; "" when no step matches
ActiveChainAsClaimed(it) ==
    LET mainAllowed == ActiveCapable(it) \/ OnlyActiveSections(it)
    IN IF ActiveField(it) \in RichTexts THEN ActiveField(it)
       ELSE IF MainField(it) \in RichTexts /\ mainAllowed THEN MainField(it)
       ELSE IF ActiveField(it) # "" THEN ActiveField(it)
       ELSE IF MainField(it) # "" /\ mainAllowed THEN MainField(it)
       ELSE ActiveLocText(it)

\* C5: whenever a step of the passive chain matches (rich passive field; rich
\* main desc unless active-capable or only-active sections; non-empty passive
\* field; non-empty main desc under the same condition; joined passive-bucket
\* loc_strings), passiveDescription is the first match. A rich passive_desc with
\* a non-empty desc yields passive_desc.
C5_PassiveChainFirstMatch ==
    pc = "descriptions done" =>
        /\ PassiveChainAsClaimed(item) # "" =>
               out.passiveDescription = PassiveChainAsClaimed(item)
        /\ (TextOf(item.description.passive_desc) \in RichTexts /\ MainField(item) # "") =>
               out.passiveDescription = TextOf(item.description.passive_desc)

C5_Witness ==
    /\ pc = "descriptions done"
    /\ item.description.passive_desc = JStr(RichPassive)
    /\ item.description.desc = JStr(RichMain)
    /\ ~ActiveCapable(item)
    /\ item.tooltip_sections = SecsPassiveActive
    /\ out.passiveDescription = RichPassive

\* C6: whenever a step of the active chain matches (rich active field; rich
\* main desc if active-capable or only-active sections; non-empty active field;
\* non-empty main desc under the same condition; joined active-section
\* loc_strings), activeDescription is the first match.
C6_ActiveChainFirstMatch ==
    pc = "descriptions done" =>
        (ActiveChainAsClaimed(item) # "" =>
             out.activeDescription = ActiveChainAsClaimed(item))

C6_Witness ==
    /\ pc = "descriptions done"
    /\ ~ActiveCapable(item)
    /\ item.tooltip_sections = SecsActiveText
    /\ item.description.desc = JStr(RichMain)
    /\ item.description.active_desc = JStr(PlainActive)
    /\ out.activeDescription = RichMain

\* the fallback candidates in the order the safety net tries them
FallbackCandidates(it) ==
    <<MainField(it), PassiveField(it), ActiveField(it), PassiveLocText(it),
      ActiveLocText(it), TextOf(it.description.english), TextOf(it.description.tooltip)>>

FirstCandidate(it) ==
    LET c == FallbackCandidates(it)
        full == {i \in 1..Len(c) : c[i] # ""}
    IN IF full = {} THEN "" ELSE c[CHOOSE i \in full : \A j \in full : i <= j]

\* C7: an item with any non-empty candidate (desc, passive field, active field,
\* passive or active loc_strings, english, tooltip) gets a non-empty passive or
\* active description; when both chains came up empty the first non-empty
\* candidate goes to activeDescription for an active-capable item and to
\* passiveDescription otherwise.
C7_SafetyNet ==
    pc = "descriptions done" =>
        /\ FirstCandidate(item) # "" =>
               (out.passiveDescription # "" \/ out.activeDescription # "")
        /\ (PassiveChainAsClaimed(item) = "" /\ ActiveChainAsClaimed(item) = "") =>
               IF ActiveCapable(item)
               THEN out.activeDescription = FirstCandidate(item)
                    /\ out.passiveDescription = ""
               ELSE out.passiveDescription = FirstCandidate(item)
                    /\ out.activeDescription = ""

C7_Witness ==
    /\ pc = "descriptions done"
    /\ ActiveCapable(item)
    /\ PassiveChainAsClaimed(item) = ""
    /\ ActiveChainAsClaimed(item) = ""
    /\ item.description.english = JUndefined
    /\ out.activeDescription = "Tooltip text."
    /\ out.passiveDescription = ""

-----------------------------------------------------------------------------
(* Assembly of one item *)

\* the longest tooltip_sections list of the assembled items
MaxSections == 2

GoodFoo == [EmptyProp EXCEPT !.value = JStr("5"), !.label = JStr("Foo")]
ZeroFoo == [EmptyProp EXCEPT !.value = JStr("0"), !.label = JStr("Foo")]
FlaggedBar ==
    [EmptyProp EXCEPT !.value = JNum(3), !.label = JStr("Bar"),
                      !.usage_flags = ArrayOf(<<"ConditionallyApplied">>),
                      !.css_class = JStr("slow")]
UnlabelledBar == [EmptyProp EXCEPT !.value = JStr("4")]
EmptyBar == [EmptyProp EXCEPT !.value = JStr(""), !.label = JStr("Bar")]

Bag(foo, bar) ==
    [k |-> "object", fields |-> [x \in {"Foo", "Bar"} |-> IF x = "Foo" THEN foo ELSE bar]]

PropertyBags ==
    {Bag(GoodFoo, FlaggedBar), Bag(ZeroFoo, UnlabelledBar), Bag(PrimitiveProp, EmptyBar),
     [k |-> "object", fields |-> [x \in {"Bar"} |-> FlaggedBar]]}

Upgrade(name, bonus) ==
    [property_upgrades |-> ArrayOf(<<[name |-> JStr(name), bonus |-> bonus]>>)]

UpgradeLists ==
    {NoArray, ArrayOf(<<Upgrade("Foo", JStr("9"))>>),
     ArrayOf(<<Upgrade("Bar", JStr("0")), Upgrade("Foo", JStr(""))>>)}

\* text then a stat, then more text
AttrsTextStatText ==
    ArrayOf(<<Attr(JStr("X"), NoArray, NoArray, ArrayOf(<<"Foo">>)), TextAttr("Y")>>)

\* one attribute with all three property roles
AttrsThreeRoles ==
    ArrayOf(<<Attr(JUndefined, ArrayOf(<<"Bar">>), ArrayOf(<<"Foo">>), ArrayOf(<<"Bar">>))>>)

SectionTypes ==
    {JUndefined, JStr(""), JStr("active"), JStr("passive"), JStr("conditional"),
     JStr("innate"), JStr("weird")}

TooltipSections ==
    {Section(ty, AttrsThreeRoles) : ty \in SectionTypes}
        \cup {Section(ty, AttrsTextStatText) :
                  ty \in {JStr("active"), JStr("passive"), JStr("weird")}}
        \cup {Section(JStr("passive"), NoArray)}

SectionLists ==
    {NoArray} \cup
    {ArrayOf(secs) : secs \in UNION {[1..n -> TooltipSections] : n \in 0..MaxSections}}

ItemDescriptions ==
    {NoDescription,
     [EmptyDescription EXCEPT !.passive_desc = JStr(PlainPassive)],
     [EmptyDescription EXCEPT !.active_desc = JStr(PlainActive)]}

AssembledItems ==
    {[EmptyItem EXCEPT !.class_name = JStr("upgrade_headshot_booster"),
                       !.properties = bag, !.upgrades = ups,
                       !.tooltip_sections = secs, !.description = d] :
        bag \in PropertyBags, ups \in UpgradeLists, secs \in SectionLists,
        d \in ItemDescriptions}

ItemInit ==
    /\ ItemInitCommon
    /\ pc = "assemble"
    /\ item \in AssembledItems

\* the per-item callback of loadItems on the item held in the state
AssembleItem ==
    /\ pc = "assemble"
    /\ out' = IF CallbackThrows(item) THEN TypeErrorThrown
               ELSE ProcessShopItem(item, <<item>>)
    /\ pc' = "assembled"
    /\ UNCHANGED <<uiVars, statVars, item, loadVars>>

ItemNext == AssembleItem

SpecItem == ItemInit /\ [][ItemNext]_vars

\* calls of extractStat, and assemblies of items
SpecStatItem == (StatValueInit \/ ItemInit) /\ [][StatNext \/ ItemNext]_vars

-----------------------------------------------------------------------------
(* Claims about the assembled item *)

\* the value a property resolves to: its own value, or the bonus under its name
\* when the own value is missing, empty or zero
ResolvedValue(p, bonus) == IF OwnValueMissing(p) THEN bonus ELSE p.value

\* zero (the number 0 or the string '0'), the empty string, or unset
ZeroOrUnset(v) == v \in {JUndefined, JNull, JStr(""), JStr("0"), JNum(0)}

HasLabel(p) == p.label.k = "string" /\ p.label.s # ""

\* a property extractStat must decline
Declined(p, bonus) ==
    \/ p.k # "object"
    \/ ~HasLabel(p)
    \/ ZeroOrUnset(ResolvedValue(p, bonus))

\* the bonus the item's upgrades give a name: the upgrade lists of the model
\* hold at most one usable (non-empty) bonus per name
BonusOf(it, name) ==
    LET ups == IF it.upgrades.isArray THEN it.upgrades.items ELSE <<>>
        usable == {i \in 1..Len(ups) :
                      /\ ups[i].property_upgrades.items[1].name = JStr(name)
                      /\ ups[i].property_upgrades.items[1].bonus # JStr("")}
    IN IF usable = {} THEN JUndefined
       ELSE ups[CHOOSE i \in usable : TRUE].property_upgrades.items[1].bonus

\* every StatInfo of a block list, in order
RECURSIVE BlockStats(_)
BlockStats(blocks) ==
    IF Len(blocks) = 0 THEN <<>>
    ELSE (IF Head(blocks).type = "stats" THEN Head(blocks).stats ELSE <<>>)
             \o BlockStats(Tail(blocks))

\* every StatInfo the assembled item holds, flat list and blocks
AllStatInfos(assembled) ==
    {assembled.stats[i] : i \in 1..Len(assembled.stats)}
        \cup {BlockStats(assembled.activeBlocks)[i] :
                  i \in 1..Len(BlockStats(assembled.activeBlocks))}
        \cup {BlockStats(assembled.passiveBlocks)[i] :
                  i \in 1..Len(BlockStats(assembled.passiveBlocks))}

\* C3: extractStat returns nothing whenever the property is absent, is not an
\* object, has no non-empty label, or resolves (own value, else the upgrade
\* bonus) to zero, the empty string or undefined; and every StatInfo in the
\* lists of extractStats and extractContentBlocks has a non-empty label and
\* comes from a labelled property whose resolved value is non-empty, non-zero.
C3_ZeroOrAbsentNeverAppears ==
    /\ pc = "done" =>
           LET bonus == IF propName \in DOMAIN upgradesMap
                        THEN upgradesMap[propName] ELSE JUndefined
           IN Declined(prop, bonus) => stat.k = "null"
    /\ pc = "assembled" =>
           \A st \in AllStatInfos(out) :
               /\ st.label # ""
               /\ \E name \in DOMAIN item.properties.fields :
                      LET p == item.properties.fields[name]
                      IN /\ p.k = "object"
                         /\ p.label = JStr(st.label)
                         /\ ~ZeroOrUnset(ResolvedValue(p, BonusOf(item, name)))

\* an item whose Foo is '0' with bonus '9' and whose Bar has no label: the
\* lists hold Foo (from the bonus) and nothing of Bar
C3_Witness ==
    /\ pc = "assembled"
    /\ item.properties = Bag(ZeroFoo, UnlabelledBar)
    /\ item.upgrades = ArrayOf(<<Upgrade("Foo", JStr("9"))>>)
    /\ item.tooltip_sections = ArrayOf(<<Section(JStr("passive"), AttrsThreeRoles)>>)
    /\ Len(out.stats) = 1
    /\ out.stats[1].label = "Foo"
    /\ out.stats[1].value = "9"
    /\ Len(BlockStats(out.passiveBlocks)) = 1

HasSectionTyped(it, type) ==
    /\ it.tooltip_sections.isArray
    /\ \E i \in 1..Len(it.tooltip_sections.items) :
           it.tooltip_sections.items[i].section_type = JStr(type)

\* C8: hasPassiveSection is true exactly when the item has an 'innate'-typed
\* tooltip section, or a non-empty passive description, or a stat tagged
\* 'passive' together with an 'active'-typed section or a non-empty active
\* description.
C8_AsStated ==
    pc = "assembled" =>
        out.hasPassiveSection =
            (\/ HasSectionTyped(item, "innate")
             \/ out.passiveDescription # JUndefined
             \/ /\ \E i \in 1..Len(out.stats) : out.stats[i].section = "passive"
                /\ (HasSectionTyped(item, "active") \/ out.activeDescription # JUndefined))

\* the item has a section, and every section is of an unrecognized type
OnlyUnrecognizedSections(it) ==
    /\ it.tooltip_sections.isArray
    /\ Len(it.tooltip_sections.items) > 0
    /\ \A i \in 1..Len(it.tooltip_sections.items) :
           it.tooltip_sections.items[i].section_type = JStr("weird")

\* C9: a section of an unrecognized type is passive for every consumer: its
\* stats carry section 'passive' in extractStats' list, and its blocks are in
\* passiveBlocks with stats tagged 'passive'.
C9_AsStated ==
    (pc = "assembled" /\ OnlyUnrecognizedSections(item)) =>
        /\ \A i \in 1..Len(out.stats) : out.stats[i].section = "passive"
        /\ out.activeBlocks = <<>>
        /\ \A i \in 1..Len(BlockStats(out.passiveBlocks)) :
               BlockStats(out.passiveBlocks)[i].section = "passive"
        /\ Len(BlockStats(out.passiveBlocks)) = Len(out.stats)

-----------------------------------------------------------------------------
(* Classification of the assembled item: type, tier and cost *)

ExplicitTiers == {JUndefined, JNum(0), JNum(3), JNum(6)}

ClassifiedNames ==
    {JUndefined, JStr("upgrade_headshot_booster"), JStr("upgrade_t4_armor")}

SlotTypes ==
    {JUndefined, JStr(""), JStr("weapon"), JStr("vitality"), JStr("spirit"),
     JStr("EItemSlotType_WeaponMod"), JStr("EItemSlotType_Armor"),
     JStr("EItemSlotType_Tech"), JStr("weapon_armor"), JStr("spirit_weapon"),
     JStr("armor_tech"), JStr("utility")}

StoredCosts ==
    {JUndefined, JNum(0), JNum(500), JNum(1250), JNum(6200), JNum(12000),
     JStr("6200"), JStr("n/a")}

\* every classified item has a display name, so that the callback returns
ClassifiedItems ==
    {[EmptyItem EXCEPT !.name = JStr("Item"), !.item_tier = explicitTier,
                       !.class_name = cn, !.item_slot_type = slot, !.cost = c,
                       !.properties = ps] :
        explicitTier \in ExplicitTiers, cn \in ClassifiedNames, slot \in SlotTypes,
        c \in StoredCosts, ps \in CostProperties}

ClassifyInit ==
    /\ ItemInitCommon
    /\ pc = "assemble"
    /\ item \in ClassifiedItems

\* the per-item callback of loadItems on the classification inputs
SpecClassify == ClassifyInit /\ [][ItemNext]_vars

\* C11 as stated: the stored tier is an integer in 1..5 whatever item_tier,
\* class_name and the cost fields are.
C11_AsStated ==
    pc = "assembled" => (out.tier.k = "number" /\ out.tier.n \in 1..5)

\* C11 amended: a non-zero item_tier is stored as it is, inside 1..5 or not;
\* when item_tier is absent or 0 the stored tier is an integer in 1..5
\* whatever class_name and the cost fields are.
C11_TierInRange ==
    pc = "assembled" =>
        LET explicit == item.item_tier.k = "number" /\ item.item_tier.n # 0
        IN /\ explicit => out.tier = item.item_tier
           /\ ~explicit => (out.tier.k = "number" /\ out.tier.n \in 1..5)

\* an item without a tier, a tier code or a cost gets tier 1, and an
\* item_tier of 6 is stored as 6
C11_Witness ==
    /\ pc = "assembled"
    /\ \/ /\ item.item_tier = JNum(6)
          /\ out.tier = JNum(6)
       \/ /\ item.item_tier = JUndefined
          /\ item.class_name = JStr("upgrade_headshot_booster")
          /\ item.cost = JUndefined
          /\ item.properties = NoProperties
          /\ out.tier = JNum(1)

\* the categories whose keywords occur in a lower-cased slot type
SlotCategories(slot) ==
    (IF Includes(slot, "armor") \/ Includes(slot, "vitality") THEN {"vitality"} ELSE {})
        \cup (IF Includes(slot, "tech") \/ Includes(slot, "spirit") THEN {"spirit"} ELSE {})
        \cup (IF Includes(slot, "weapon") THEN {"weapon"} ELSE {})

\* C12 as stated: 'vitality' if the lower-cased item_slot_type contains 'armor'
\* or 'vitality', 'spirit' if it contains 'tech' or 'spirit', 'weapon' if it
\* contains 'weapon', and 'weapon' when it contains none of these or is absent.
C12_AsStated ==
    pc = "assembled" =>
        LET cats == SlotCategories(ToLowerCase(StrOrEmpty(item.item_slot_type)))
        IN /\ out.type \in {"weapon", "vitality", "spirit"}
           /\ "vitality" \in cats => out.type = "vitality"
           /\ ("spirit" \in cats /\ "vitality" \notin cats) => out.type = "spirit"
           /\ cats \subseteq {"weapon"} => out.type = "weapon"

\* C12 amended: determineType always returns one of 'weapon', 'vitality',
\* 'spirit'; 'weapon' is tested first, so a slot type containing 'weapon'
\* yields 'weapon' even if it also contains 'armor', 'vitality', 'tech' or
\* 'spirit'; otherwise 'armor' or 'vitality' yields 'vitality'; otherwise
\* 'tech' or 'spirit' yields 'spirit'; otherwise, or when absent, 'weapon'.
C12_TypePrecedence ==
    pc = "assembled" =>
        LET cats == SlotCategories(ToLowerCase(StrOrEmpty(item.item_slot_type)))
        IN /\ out.type \in {"weapon", "vitality", "spirit"}
           /\ "weapon" \in cats => out.type = "weapon"
           /\ ("weapon" \notin cats /\ "vitality" \in cats) => out.type = "vitality"
           /\ (cats = {"spirit"}) => out.type = "spirit"
           /\ cats = {} => out.type = "weapon"

\* a slot type naming both weapon and armor is a weapon
C12_Witness ==
    /\ pc = "assembled"
    /\ item.item_slot_type = JStr("weapon_armor")
    /\ out.type = "weapon"

\* C13: the stored cost is a number equal to extractCost(item); a non-numeric
\* or string-typed cost is never propagated into the output.
C13_AsStated ==
    pc = "assembled" => (out.cost.k = "number" /\ out.cost = extractCost(item))

-----------------------------------------------------------------------------
(* Claims about the order of the content blocks *)

\* the bucket a section type is declared for: 'innate' sections are skipped
DeclaredBucket(secType) ==
    IF secType = JStr("innate") THEN "skip"
    ELSE IF secType = JStr("active") THEN "active"
    ELSE "passive"

\* the attributes of the sections of one bucket, in declaration order, each
\* with the type of its section
BucketAttrs(it, bucket) ==
    LET secs == ListOrEmpty(it.tooltip_sections)
        upTo[i \in 0..Len(secs)] ==
            IF i = 0 THEN <<>>
            ELSE LET attrs == ListOrEmpty(secs[i].section_attributes)
                 IN upTo[i - 1] \o
                        (IF DeclaredBucket(secs[i].section_type) = bucket
                         THEN [j \in 1..Len(attrs) |->
                                  [attr |-> attrs[j], secType |-> secs[i].section_type]]
                         ELSE <<>>)
    IN upTo[Len(secs)]

\* per attribute in order: its description block (if it has a loc_string),
\* then its one stats block (if a stat resulted)
DeclaredBlocks(it, bucket) ==
    LET attrs == BucketAttrs(it, bucket)
        map == BuildUpgradesMap(it.upgrades)
        upTo[i \in 0..Len(attrs)] ==
            IF i = 0 THEN <<>>
            ELSE LET a == attrs[i].attr
                     stats == AttrStats(a, PropertiesOrEmpty(it), bucket, map,
                                        attrs[i].secType = JStr("conditional"))
                 IN upTo[i - 1]
                        \o (IF a.loc_string \notin {JUndefined, JStr("")}
                            THEN <<[type |-> "description", text |-> a.loc_string.s,
                                    stats |-> <<>>]>>
                            ELSE <<>>)
                        \o (IF stats # <<>>
                            THEN <<[type |-> "stats", text |-> "", stats |-> stats]>>
                            ELSE <<>>)
    IN upTo[Len(attrs)]

\* the item's only section has attributes [loc_string 'X', properties [Foo]],
\* [loc_string 'Y'], and Foo is extractable
TextStatTextCase(it) ==
    /\ it.tooltip_sections.isArray
    /\ Len(it.tooltip_sections.items) = 1
    /\ it.tooltip_sections.items[1].section_attributes = AttrsTextStatText
    /\ PropAt(it.properties.fields, "Foo") = GoodFoo

\* C14: within each bucket the blocks follow declaration order: sections in
\* order ('innate' ones skipped), attributes in order, per attribute the
\* description block of its loc_string before its single stats block (pushed
\* only if a stat resulted); attributes [loc_string 'X', properties [p1]],
\* [loc_string 'Y'] give exactly [description('X'), stats([p1]), description('Y')].
C14_BlocksInDeclarationOrder ==
    pc = "assembled" =>
        /\ out.activeBlocks = DeclaredBlocks(item, "active")
        /\ out.passiveBlocks = DeclaredBlocks(item, "passive")
        /\ TextStatTextCase(item) =>
               LET blocks == IF item.tooltip_sections.items[1].section_type = JStr("active")
                             THEN out.activeBlocks ELSE out.passiveBlocks
               IN /\ Len(blocks) = 3
                  /\ blocks[1].type = "description" /\ blocks[1].text = "X"
                  /\ blocks[2].type = "stats" /\ Len(blocks[2].stats) = 1
                  /\ blocks[2].stats[1].label = "Foo"
                  /\ blocks[3].type = "description" /\ blocks[3].text = "Y"

\* the text/stat/text section after an 'innate' section: three passive blocks
C14_Witness ==
    /\ pc = "assembled"
    /\ item.tooltip_sections =
           ArrayOf(<<Section(JStr("innate"), AttrsThreeRoles),
                     Section(JStr("passive"), AttrsTextStatText)>>)
    /\ item.properties = Bag(GoodFoo, FlaggedBar)
    /\ Len(out.passiveBlocks) = 3
    /\ out.passiveBlocks[2].type = "stats"
    /\ out.activeBlocks = <<>>

-----------------------------------------------------------------------------
(* loadItems: filter, first pass, second pass, publication *)

\* the filter of purchasable shop items
IsShopItem_IgnoresDisabled(it) ==
    /\ it.shopable = JBool(TRUE)
    /\ (Truthy(it.shop_image) \/ Truthy(it.shop_image_webp))

\* the filter of purchasable shop items
IsShopItem(it) ==
    /\ it.shopable = JBool(TRUE)
    /\ ~Truthy(it.disabled)
    /\ (Truthy(it.shop_image) \/ Truthy(it.shop_image_webp))

\* allItems.filter(...)
ShopItems(payload) == SelectSeq(payload, IsShopItem)

\* a map() that carries on with the array of the run before
MapStart_Reused(earlier) == earlier

\* shopItems.map(...) builds a new array, whatever the run before left
MapStart(earlier) == <<>>

\* a loop that stops one element early
LoopDone_BeforeLast(list, index) == index >= Len(list)

\* map / forEach have visited every element
LoopDone(list, index) == index > Len(list)

\* processedById.get(id): the last processed item with that id, 0 if none
ProcessedById(arr, id) ==
    LET hits == {i \in 1..Len(arr) : arr[i].id = id}
    IN IF hits = {} THEN 0 ELSE CHOOSE i \in hits : \A j \in hits : j <= i

\* an upgradesTo entry that names the machine name
UpgradeEntry_MachineName(it) == [id |-> it.id, name |-> StrOrEmpty(it.name)]

\* the upgradesTo entry that refers to a processed item
UpgradeEntry(it) == [id |-> it.id, name |-> it.displayName]

RECURSIVE PushUpgrades(_, _, _)
\* item.componentItems.forEach: push the entry onto each component found by id
PushUpgrades(arr, entry, comps) ==
    IF Len(comps) = 0 THEN arr
    ELSE LET componentItem == ProcessedById(arr, Head(comps).id)
         IN PushUpgrades(
                IF componentItem # 0
                THEN [arr EXCEPT ![componentItem].upgradesTo = Append(@, entry)]
                ELSE arr,
                entry, Tail(comps))

\* the second pass at element i of processed
LinkItem(arr, i) == PushUpgrades(arr, UpgradeEntry(arr[i]), arr[i].componentItems)

\* the array a React state refers to
Published(ref) == IF ref = 0 THEN <<>> ELSE processed[ref]

FetchError == "Failed to load items: API returned 500"
ItemError ==
    "Failed to load items: Cannot read properties of undefined (reading 'replace')"

-----------------------------------------------------------------------------
(* Payloads of the items API *)

\* the longest payload
MaxItems == 3

RawLoadItem(id, className, name, components) ==
    [EmptyItem EXCEPT !.id = id, !.class_name = className, !.name = name,
                      !.component_items = components]

Base == RawLoadItem(1, JStr("upgrade_base"), JUndefined, NoArray)
Mid ==
    RawLoadItem(2, JStr("upgrade_mid"), JStr("Mid Item"),
                ArrayOf(<<"upgrade_base", "upgrade_part">>))
Top ==
    RawLoadItem(3, JStr("upgrade_top"), JUndefined,
                ArrayOf(<<"upgrade_mid", "upgrade_lost", "upgrade_base">>))
\* not purchasable: shopable is truthy, but not true
Part ==
    [RawLoadItem(4, JStr("upgrade_part"), JUndefined, NoArray)
        EXCEPT !.shopable = JNum(1)]
Disabled ==
    [RawLoadItem(5, JStr("upgrade_off"), JStr("Off"), ArrayOf(<<"upgrade_base">>))
        EXCEPT !.disabled = JBool(TRUE)]
NoImage ==
    [RawLoadItem(6, JStr("upgrade_blank"), JStr("Blank"), ArrayOf(<<"upgrade_base">>))
        EXCEPT !.shop_image = JStr("")]
WebpOnly ==
    [RawLoadItem(7, JStr("upgrade_webp"), JStr("Webp"), ArrayOf(<<"upgrade_top">>))
        EXCEPT !.shop_image = JUndefined, !.shop_image_webp = JStr("w.webp"),
               !.disabled = JBool(FALSE)]
\* neither a name nor a class name
Nameless == RawLoadItem(8, JUndefined, JUndefined, NoArray)
\* a second item with the class name of Base, not purchasable
BaseTwin ==
    [RawLoadItem(9, JStr("upgrade_base"), JStr("Twin"), NoArray)
        EXCEPT !.shopable = JUndefined]
\* a second item with the id of Mid
MidTwin == RawLoadItem(2, JStr("upgrade_other"), JStr("Other"), NoArray)

\* an item whose id is the id the placeholders carry
ZeroId == RawLoadItem(0, JStr("upgrade_zero"), JStr("Zero"), NoArray)

RawLoadItems ==
    {Base, Mid, Top, Part, Disabled, NoImage, WebpOnly, Nameless, BaseTwin, MidTwin,
     ZeroId}

Payloads == UNION {[1..n -> RawLoadItems] : n \in 0..MaxItems}

-----------------------------------------------------------------------------
(* Runs of loadItems *)

LoadInit ==
    /\ NoStatCall
    /\ item = NoItem
    /\ pc = "mount"
    /\ allItems \in Payloads
    /\ shopItems = <<>>
    /\ processed = [r \in 1..MaxRuns |-> <<>>]
    /\ cursor = 0
    /\ items = 0
    /\ filteredItems = 0
    /\ error = JNull
    /\ loading = TRUE
    /\ run = 0
    /\ UIIdle

\* the effect starts loadItems: setLoading(true), then the fetch is awaited
StartLoad ==
    /\ pc \in {"mount", "idle"}
    /\ run < MaxRuns
    /\ run' = run + 1
    /\ loading' = TRUE
    /\ pc' = "fetch"
    /\ UNCHANGED <<uiVars, statVars, item, out, allItems, shopItems, processed, cursor,
                   items, filteredItems, error>>

\* the response is not ok: throw, catch (setError), on to finally
FetchFails ==
    /\ pc = "fetch"
    /\ error' = JStr(FetchError)
    /\ pc' = "finally"
    /\ UNCHANGED <<uiVars, statVars, item, out, allItems, shopItems, processed, cursor,
                   items, filteredItems, loading, run>>

\* the payload arrives: filter it and start the map over the shop items
FilterShopItems ==
    /\ pc = "fetch"
    /\ shopItems' = ShopItems(allItems)
    /\ processed' = [processed EXCEPT
                        ![run] = MapStart(IF run > 1 THEN processed[run - 1] ELSE <<>>)]
    /\ cursor' = 1
    /\ pc' = "pass1"
    /\ UNCHANGED <<uiVars, statVars, item, out, allItems, items, filteredItems, error,
                   loading, run>>

\* first pass, one shop item: the map callback returns its ProcessedItem
ProcessNext ==
    /\ pc = "pass1"
    /\ ~LoopDone(shopItems, cursor)
    /\ ~CallbackThrows(shopItems[cursor])
    /\ processed' = [processed EXCEPT
                        ![run] = Append(@, ProcessShopItem(shopItems[cursor], allItems))]
    /\ cursor' = cursor + 1
    /\ UNCHANGED <<uiVars, pc, statVars, item, out, allItems, shopItems, items,
                   filteredItems, error, loading, run>>

\* first pass, one shop item: the map callback throws; catch (setError)
ProcessThrows ==
    /\ pc = "pass1"
    /\ ~LoopDone(shopItems, cursor)
    /\ CallbackThrows(shopItems[cursor])
    /\ error' = JStr(ItemError)
    /\ pc' = "finally"
    /\ UNCHANGED <<uiVars, statVars, item, out, allItems, shopItems, processed, cursor,
                   items, filteredItems, loading, run>>

\* the map is over: the second pass starts
StartSecondPass ==
    /\ pc = "pass1"
    /\ LoopDone(shopItems, cursor)
    /\ cursor' = 1
    /\ pc' = "pass2"
    /\ UNCHANGED <<uiVars, statVars, item, out, allItems, shopItems, processed, items,
                   filteredItems, error, loading, run>>

\* second pass, one processed item: push it onto its components' upgradesTo
LinkNext ==
    /\ pc = "pass2"
    /\ ~LoopDone(processed[run], cursor)
    /\ processed' = [processed EXCEPT ![run] = LinkItem(@, cursor)]
    /\ cursor' = cursor + 1
    /\ UNCHANGED <<uiVars, pc, statVars, item, out, allItems, shopItems, items,
                   filteredItems, error, loading, run>>

\* setItems(processed); setFilteredItems(processed)
Publish ==
    /\ pc = "pass2"
    /\ LoopDone(processed[run], cursor)
    /\ items' = run
    /\ filteredItems' = run
    /\ pc' = "finally"
    /\ UNCHANGED <<uiVars, statVars, item, out, allItems, shopItems, processed, cursor,
                   error, loading, run>>

\* finally: setLoading(false)
EndLoad ==
    /\ pc = "finally"
    /\ loading' = FALSE
    /\ pc' = "idle"
    /\ UNCHANGED <<uiVars, statVars, item, out, allItems, shopItems, processed, cursor,
                   items, filteredItems, error, run>>

LoadNext ==
    \/ StartLoad
    \/ FetchFails
    \/ FilterShopItems
    \/ ProcessNext
    \/ ProcessThrows
    \/ StartSecondPass
    \/ LinkNext
    \/ Publish
    \/ EndLoad

SpecLoad == LoadInit /\ [][LoadNext]_vars

-----------------------------------------------------------------------------
(* Claims about loadItems *)

\* the current run has published its array
Loaded == pc \in {"finally", "idle"} /\ run > 0 /\ items = run

\* ids and class names identify the items of the payload
UniqueKeys(payload) ==
    \A i, j \in 1..Len(payload) :
        i # j => /\ payload[i].id # payload[j].id
                 /\ payload[i].class_name # payload[j].class_name

\* a's component_items contains b's class_name
BuiltFrom(a, b) ==
    /\ a.component_items.isArray
    /\ b.class_name.k = "string"
    /\ \E k \in 1..Len(a.component_items.items) :
           a.component_items.items[k] = b.class_name.s

\* B.upgradesTo holds {id: A.id, name: A.displayName} for the shop items at
\* positions a and b
HasUpgradeEntry(a, b) ==
    \E e \in 1..Len(processed[run][b].upgradesTo) :
        processed[run][b].upgradesTo[e] =
            [id |-> shopItems[a].id, name |-> processed[run][a].displayName]

\* C15 as stated: for all shop-eligible A and B of one payload, if A's
\* component_items contains B's class_name then after the second pass
\* B.upgradesTo contains {id: A.id, name: A.displayName}.
C15_AsStated ==
    Loaded =>
        \A a, b \in 1..Len(shopItems) :
            BuiltFrom(shopItems[a], shopItems[b]) => HasUpgradeEntry(a, b)

\* C15 amended: the symmetry holds for payloads in which no two items share
\* an id or a class name (both lookups keep the last item registered under a
\* key, so a later item with B's class name or id takes B's entries).
C15_UpgradeSymmetry ==
    (Loaded /\ UniqueKeys(allItems)) =>
        \A a, b \in 1..Len(shopItems) :
            BuiltFrom(shopItems[a], shopItems[b]) => HasUpgradeEntry(a, b)

\* Base is built into Mid and Top, Mid into Top
C15_Witness ==
    /\ Loaded
    /\ allItems = <<Base, Mid, Top>>
    /\ processed[run][1].upgradesTo =
           <<[id |-> 2, name |-> "Mid Item"], [id |-> 3, name |-> "Top"]>>
    /\ processed[run][2].upgradesTo = <<[id |-> 3, name |-> "Top"]>>
    /\ processed[run][3].upgradesTo = <<>>

\* the display name of a raw item: its name, else its formatted class name
NameOrFormatted(raw) ==
    IF raw.name.k = "string" /\ raw.name.s # "" THEN raw.name.s
    ELSE formatName(raw.class_name.s)

\* C16: componentItems has exactly one entry per element of component_items,
\* in order: a class name found in the full payload yields that item's id and
\* display name (name, else formatName(class_name)); a class name not found
\* yields a placeholder named formatName of the referenced class name.
C16_ComponentEntries ==
    (run > 0 /\ pc # "fetch") =>
        \A j \in 1..Len(processed[run]) :
            LET names == IF shopItems[j].component_items.isArray
                         THEN shopItems[j].component_items.items ELSE <<>>
                comps == processed[run][j].componentItems
            IN /\ Len(comps) = Len(names)
               /\ \A k \in 1..Len(names) :
                      LET found == {i \in 1..Len(allItems) :
                                       allItems[i].class_name = JStr(names[k])}
                      IN IF found = {}
                         THEN comps[k].name = formatName(names[k])
                         ELSE \E i \in found :
                                  /\ comps[k].id = allItems[i].id
                                  /\ comps[k].name = NameOrFormatted(allItems[i])

\* Top is built from Mid (found, named), a lost item (placeholder) and an
\* item that is not in the payload
C16_Witness ==
    /\ pc = "pass2"
    /\ allItems = <<Top, Mid, Part>>
    /\ processed[run][1].componentItems =
           <<[id |-> 2, name |-> "Mid Item"], [id |-> 0, name |-> "Lost"],
             [id |-> 0, name |-> "Base"]>>
    /\ processed[run][2].componentItems =
           <<[id |-> 0, name |-> "Base"], [id |-> 4, name |-> "Part"]>>

\* the (item, component) pairs of an array in the order the second pass
\* visits them
LinkPairs(arr) ==
    LET upTo[i \in 0..Len(arr)] ==
            IF i = 0 THEN <<>>
            ELSE upTo[i - 1] \o [c \in 1..Len(arr[i].componentItems) |-> <<i, c>>]
    IN upTo[Len(arr)]

\* the upgradesTo list of element j once the second pass is over
ExpectedUpgradesTo(arr, j) ==
    LET mine == SelectSeq(LinkPairs(arr),
                    LAMBDA pr :
                        /\ arr[j].id = arr[pr[1]].componentItems[pr[2]].id
                        /\ \A later \in (j + 1)..Len(arr) : arr[later].id # arr[j].id)
    IN [e \in 1..Len(mine) |->
            [id |-> arr[mine[e][1]].id, name |-> arr[mine[e][1]].displayName]]

\* every shop item is constructed and every upgradesTo entry appended
FullyAssembled(arr) ==
    /\ Len(arr) = Len(shopItems)
    /\ \A j \in 1..Len(arr) :
           /\ arr[j].id = shopItems[j].id
           /\ arr[j].upgradesTo = ExpectedUpgradesTo(arr, j)

\* C17: the processed array is published (setItems / setFilteredItems) only
\* after pass 1 has constructed every item and pass 2 has appended every
\* upgradesTo entry; a published array is never mutated; when the load fails
\* nothing is published: items stays empty, error is set, loading ends false.
C17_PublicationOrdering ==
    /\ [][(items' # items \/ filteredItems' # filteredItems) =>
              /\ items' = run /\ filteredItems' = run
              /\ FullyAssembled(processed[run])
              /\ processed' = processed]_vars
    /\ [][items # 0 => processed'[items] = processed[items]]_vars
    /\ [][error' # error =>
              (items' = items /\ filteredItems' = filteredItems /\ pc' = "finally")]_vars
    /\ [](pc = "idle" => loading = FALSE)
    /\ []((run = 1 /\ error # JNull) => (items = 0 /\ filteredItems = 0))

\* published with all links in place
C17_Witness ==
    /\ Loaded
    /\ pc = "idle"
    /\ allItems = <<Top, Base, Mid>>
    /\ loading = FALSE
    /\ error = JNull
    /\ Published(items)[2].upgradesTo =
           <<[id |-> 3, name |-> "Top"], [id |-> 2, name |-> "Mid Item"]>>

\* C18: no raw item aborts processing: whatever optional fields the items of
\* the payload lack, the load never ends in the error state because of item
\* content.
C18_AsStated == error \in {JNull, JStr(FetchError)}

\* shopable === true, a falsy disabled, a populated shop image
Eligible(raw) ==
    /\ raw.shopable = JBool(TRUE)
    /\ raw.disabled \in {JUndefined, JNull, JBool(FALSE)}
    /\ \/ (raw.shop_image.k = "string" /\ raw.shop_image.s # "")
       \/ (raw.shop_image_webp.k = "string" /\ raw.shop_image_webp.s # "")

\* C19: the published array holds exactly one ProcessedItem for each raw item
\* with shopable === true, a falsy disabled and a populated shop_image or
\* shop_image_webp, in payload order; an item failing a condition does not
\* appear (but stays available for component lookup).
C19_FilteredInOrder ==
    Loaded =>
        LET arr == Published(items)
            eligible == {i \in 1..Len(allItems) : Eligible(allItems[i])}
            n == Cardinality(eligible)
            nth == CHOOSE f \in [1..n -> eligible] :
                       \A a, b \in 1..n : a < b => f[a] < f[b]
        IN /\ Len(arr) = n
           /\ \A k \in 1..n :
                  /\ arr[k].id = allItems[nth[k]].id
                  /\ arr[k].name = allItems[nth[k]].class_name

\* Part is filtered out and still resolves as a component of Mid
C19_Witness ==
    /\ Loaded
    /\ allItems = <<Mid, Part, WebpOnly>>
    /\ Len(Published(items)) = 2
    /\ Published(items)[1].id = 2
    /\ Published(items)[2].id = 7
    /\ Published(items)[1].componentItems[2] = [id |-> 4, name |-> "Part"]

\* both runs of loadItems have published
BothRunsLoaded == pc = "idle" /\ run = 2 /\ items = 2 /\ error = JNull

-----------------------------------------------------------------------------
(* Claims about the formatting of the display value *)

\* the string of the value extractStat resolved for the call in the state
ResolvedString ==
    StringOf(ResolvedValue(prop, MapGet(upgradesMap, propName)))

\* s ends with the given suffix
EndsIn(s, suffix) ==
    /\ Len(s) >= Len(suffix)
    /\ SubSeq(s, Len(s) - Len(suffix) + 1, Len(s)) = suffix

\* the part of a unit before its first '/'
BaseUnitOf(unit) ==
    LET slashes == {i \in 1..Len(unit) : SubSeq(unit, i, i) = "/"}
    IN IF slashes = {} THEN unit
       ELSE SubSeq(unit, 1, (CHOOSE i \in slashes : \A j \in slashes : i <= j) - 1)

\* C21: the postfix never duplicates a unit: it is not appended when the
\* prefixed value already ends with the trimmed postfix; otherwise, when the
\* value ends with the postfix's base unit (the part before '/'), the base unit
\* is replaced by a space and the full postfix ('2.5m' with 'm/s' gives
\* '2.5 m/s'); otherwise the postfix is appended as given.
C21_PostfixNeverDuplicates ==
    (pc = "done" /\ Returned(stat)) =>
        LET prefixed == ApplyPrefix(prop, ResolvedString)
            value == Trim(prefixed)
            postfix == Trim(StrOrEmpty(prop.postfix))
            unit == Trim(BaseUnitOf(postfix))
        IN /\ StrOrEmpty(prop.postfix) = "" => stat.value = prefixed
           /\ (StrOrEmpty(prop.postfix) # "" /\ EndsIn(value, postfix)) =>
                  stat.value = prefixed
           /\ (StrOrEmpty(prop.postfix) # "" /\ ~EndsIn(value, postfix)
                   /\ unit # "" /\ EndsIn(value, unit)) =>
                  stat.value =
                      Trim(SubSeq(value, 1, Len(value) - Len(unit))) \o " " \o postfix
           /\ (StrOrEmpty(prop.postfix) # "" /\ ~EndsIn(value, postfix)
                   /\ ~(unit # "" /\ EndsIn(value, unit))) =>
                  stat.value = prefixed \o prop.postfix.s

\* '2.5m' with postfix 'm/s' is shown as '2.5 m/s'
C21_Witness ==
    /\ pc = "done"
    /\ prop.value = JStr("2.5m")
    /\ prop.prefix = JUndefined
    /\ prop.postfix = JStr("m/s")
    /\ Returned(stat)
    /\ stat.value = "2.5 m/s"

SignPlaceholder == "{s:sign}"

\* where the sign placeholder starts in a prefix, 0 if it has none
PlaceholderAt(prefix) ==
    LET starts == {i \in 1..Len(prefix) :
                      i + Len(SignPlaceholder) - 1 <= Len(prefix)
                      /\ SubSeq(prefix, i, i + Len(SignPlaceholder) - 1) = SignPlaceholder}
    IN IF starts = {} THEN 0 ELSE CHOOSE i \in starts : \A j \in starts : i <= j

\* C22: when the prefix contains '{s:sign}', the placeholder becomes '+' if
\* the resolved value string does not start with '-' and the empty string if
\* it does; the substituted prefix is prepended to the unchanged value, so a
\* negative value never shows '+' before its '-' nor a second minus sign.
C22_SignPlaceholder ==
    (pc = "done" /\ Returned(stat) /\ PlaceholderAt(StrOrEmpty(prop.prefix)) > 0) =>
        LET prefix == prop.prefix.s
            at == PlaceholderAt(prefix)
            negative == Len(ResolvedString) > 0 /\ SubSeq(ResolvedString, 1, 1) = "-"
            substituted ==
                SubSeq(prefix, 1, at - 1) \o (IF negative THEN "" ELSE "+")
                    \o SubSeq(prefix, at + Len(SignPlaceholder), Len(prefix))
        IN /\ stat.value = ApplyPostfix(prop, substituted \o ResolvedString)
           /\ negative => (~Includes(stat.value, "+-") /\ ~Includes(stat.value, "--"))

\* '-3' keeps its single minus and '5' gets a plus
C22_Witness ==
    /\ pc = "done"
    /\ Returned(stat)
    /\ prop.prefix = JStr("{s:sign}")
    /\ prop.postfix = JUndefined
    /\ \/ (prop.value = JStr("-3") /\ stat.value = "-3")
       \/ (prop.value = JStr("5") /\ stat.value = "+5")

-----------------------------------------------------------------------------
(* Calls of extractStat on properties with a scale_function *)

StatScales == {JUndefined, JNum(0), JNum(2), JStr("2")}
ScaleValues == {JUndefined, JNull, JNum(3), JNum(-1)}
BonusScales == {JUndefined, JNum(4)}
SpecificScaleTypes == {JUndefined, JStr(""), JStr("ETechPower"), JStr("EUnknown")}
ScalingStatLists ==
    {NoArray, ArrayOf(<<>>), ArrayOf(<<"EUnknown">>),
     ArrayOf(<<"EUnknown", "EMaxHealth", "EMoveSpeed">>)}

ScaleFunctions ==
    {NoScaleFunction} \cup
    {[k |-> "object", stat_scale |-> a, scale_value |-> b, bonus_scale |-> c,
      specific_stat_scale_type |-> t, scaling_stats |-> l] :
        a \in StatScales, b \in ScaleValues, c \in BonusScales,
        t \in SpecificScaleTypes, l \in ScalingStatLists}

ScaleProps ==
    {[EmptyProp EXCEPT !.value = JStr("5"), !.label = JStr("Damage"),
                       !.scale_function = sf] : sf \in ScaleFunctions}

ScaleInit ==
    /\ StatInitCommon
    /\ prop \in ScaleProps
    /\ sectionType = "passive"
    /\ upgradesMap = EmptyMap
    /\ isConditional = FALSE
    /\ isImportant = FALSE

\* extractStat on the scaling inputs
SpecScale == ScaleInit /\ [][StatNext]_vars

-----------------------------------------------------------------------------
(* Claims about scaling *)

\* stat_scale, scale_value, bonus_scale in priority order
MultiplierFields(p) ==
    <<p.scale_function.stat_scale, p.scale_function.scale_value,
      p.scale_function.bonus_scale>>

PositiveNumber(v) == v.k = "number" /\ v.n > 0

\* the first element of a list of values that passes a test, else undefined
FirstThat(values, Test(_)) ==
    LET hits == {i \in 1..Len(values) : Test(values[i])}
    IN IF hits = {} THEN JUndefined
       ELSE values[CHOOSE i \in hits : \A j \in hits : i <= j]

\* C23 as stated: scaleMultiplier is the first positive number among
\* stat_scale, scale_value, bonus_scale, and is absent only when none of the
\* three holds a positive number.
C23_AsStated ==
    (pc = "done" /\ Returned(stat)) =>
        stat.scaleMultiplier = FirstThat(MultiplierFields(prop), PositiveNumber)

IsSet(v) == v.k \notin {"undefined", "null"}

\* C23 amended: the candidate is the first of stat_scale, scale_value,
\* bonus_scale that is set (neither undefined nor null); scaleMultiplier is
\* that candidate when it is a positive number and absent otherwise, even
\* when a later field holds a positive number.
C23_FirstSetField ==
    (pc = "done" /\ Returned(stat)) =>
        LET candidate == FirstThat(MultiplierFields(prop), IsSet)
        IN stat.scaleMultiplier =
               IF PositiveNumber(candidate) THEN candidate ELSE JUndefined

\* stat_scale 0 hides scale_value 3; a null scale_value gives way to bonus_scale
C23_Witness ==
    /\ pc = "done"
    /\ Returned(stat)
    /\ \/ /\ prop.scale_function.stat_scale = JNum(0)
          /\ prop.scale_function.scale_value = JNum(3)
          /\ stat.scaleMultiplier = JUndefined
       \/ /\ prop.scale_function.k = "object"
          /\ prop.scale_function.stat_scale = JUndefined
          /\ prop.scale_function.scale_value = JNull
          /\ stat.scaleMultiplier = JNum(4)

\* the display names of the scale types the calls use
DisplayNameOfScale(type) ==
    CASE type = "ETechPower" -> JStr("Spirit")
      [] type = "EMaxHealth" -> JStr("Max Health")
      [] type = "EMoveSpeed" -> JStr("Move Speed")
      [] OTHER -> JUndefined

\* the display name of the first entry of scaling_stats that has one
FirstListedName(p) ==
    LET names == p.scale_function.scaling_stats.items
    IN FirstThat([i \in 1..Len(names) |-> DisplayNameOfScale(names[i])], IsSet)

\* C24 as stated: with a multiplier, scalesWith is the display name of
\* specific_stat_scale_type if that resolves, else that of the first entry of
\* scaling_stats that is a key of SCALE_TYPE_MAP, else absent; without a
\* multiplier scalesWith is never set.
C24_AsStated ==
    (pc = "done" /\ Returned(stat)) =>
        LET specific == DisplayNameOfScale(StrOrEmpty(prop.scale_function.specific_stat_scale_type))
        IN stat.scalesWith =
               IF stat.scaleMultiplier = JUndefined THEN JUndefined
               ELSE IF IsSet(specific) THEN specific
               ELSE FirstListedName(prop)

\* C24 amended: with a multiplier, a non-empty specific_stat_scale_type alone
\* decides: scalesWith is its display name, or absent when the type is not a
\* key of SCALE_TYPE_MAP (scaling_stats is then not consulted); only when
\* specific_stat_scale_type is absent or empty is scalesWith the display name
\* of the first entry of scaling_stats that is a key, else absent. Without a
\* multiplier scalesWith is never set.
C24_SpecificTypeDecides ==
    (pc = "done" /\ Returned(stat)) =>
        LET type == StrOrEmpty(prop.scale_function.specific_stat_scale_type)
        IN stat.scalesWith =
               IF stat.scaleMultiplier = JUndefined THEN JUndefined
               ELSE IF type # "" THEN DisplayNameOfScale(type)
               ELSE FirstListedName(prop)

\* an unknown specific type leaves scalesWith absent although the list names
\* Max Health; without a specific type the list gives Max Health
C24_Witness ==
    /\ pc = "done"
    /\ Returned(stat)
    /\ stat.scaleMultiplier = JNum(2)
    /\ prop.scale_function.scaling_stats = ArrayOf(<<"EUnknown", "EMaxHealth", "EMoveSpeed">>)
    /\ \/ /\ prop.scale_function.specific_stat_scale_type = JStr("EUnknown")
          /\ stat.scalesWith = JUndefined
       \/ /\ prop.scale_function.specific_stat_scale_type = JUndefined
          /\ stat.scalesWith = JStr("Max Health")

-----------------------------------------------------------------------------
(* Calls of extractStats on one item after another *)

\* an upgrade with the given property_upgrades entries
UpgradeOf(entries) == [property_upgrades |-> ArrayOf(entries)]

Bonus(name, bonus) == [name |-> JStr(name), bonus |-> JStr(bonus)]

UpgradeHistories ==
    {NoArray,
     ArrayOf(<<UpgradeOf(<<Bonus("Foo", "9")>>)>>),
     ArrayOf(<<UpgradeOf(<<Bonus("Foo", "9")>>), UpgradeOf(<<Bonus("Foo", "7")>>)>>),
     ArrayOf(<<UpgradeOf(<<Bonus("Foo", "9"), Bonus("Foo", "7")>>)>>),
     ArrayOf(<<UpgradeOf(<<Bonus("Foo", "9")>>), UpgradeOf(<<Bonus("Foo", "")>>)>>),
     ArrayOf(<<UpgradeOf(<<Bonus("Bar", "3")>>),
               UpgradeOf(<<Bonus("Foo", "5"), Bonus("Bar", "4")>>)>>),
     ArrayOf(<<[property_upgrades |-> NoArray], UpgradeOf(<<Bonus("", "8")>>)>>)}

\* items whose Foo and Bar depend on the upgrades for their value
UpgradedItems ==
    {[EmptyItem EXCEPT !.class_name = JStr("upgrade_headshot_booster"),
                       !.properties = Bag(ZeroFoo, EmptyBar), !.upgrades = ups,
                       !.tooltip_sections =
                           ArrayOf(<<Section(JStr("passive"), AttrsThreeRoles)>>)] :
        ups \in UpgradeHistories}

UpgradesInit ==
    /\ pc = "extract"
    /\ allItems \in [1..2 -> UpgradedItems]
    /\ cursor = 1
    /\ item = NoItem
    /\ out = NoResult
    /\ propName = CalledName
    /\ prop = UndefinedProp
    /\ sectionType = "passive"
    /\ upgradesMap = EmptyMap
    /\ isConditional = FALSE
    /\ isImportant = FALSE
    /\ stat = PendingStat
    /\ shopItems = <<>>
    /\ processed = [r \in 1..MaxRuns |-> <<>>]
    /\ items = 0
    /\ filteredItems = 0
    /\ error = JNull
    /\ loading = TRUE
    /\ run = 0
    /\ UIIdle

\* a map that still holds what the call before registered
NewUpgradesMap_Kept(earlier) == earlier

\* `new Map()` at the start of each call, whatever the call before built
NewUpgradesMap(earlier) == EmptyMap

\* extractStats on the next item: build the bonus lookup, then extract
CallExtractStats ==
    /\ pc = "extract"
    /\ cursor <= Len(allItems)
    /\ item' = allItems[cursor]
    /\ upgradesMap' = UpgradeLoop(NewUpgradesMap(upgradesMap),
                                  ListOrEmpty(allItems[cursor].upgrades))
    /\ out' = StatsLoop(ListOrEmpty(allItems[cursor].tooltip_sections),
                        PropertiesOrEmpty(allItems[cursor]), upgradesMap')
    /\ cursor' = cursor + 1
    /\ UNCHANGED <<uiVars, pc, propName, prop, sectionType, isConditional, isImportant,
                   stat, allItems, shopItems, processed, items, filteredItems,
                   error, loading, run>>

UpgradesNext == CallExtractStats

SpecUpgrades == UpgradesInit /\ [][UpgradesNext]_vars

-----------------------------------------------------------------------------
(* Claims about the upgrade-bonus lookup *)

\* every property_upgrades entry of an item, in declaration order
DeclaredBonuses(it) ==
    LET ups == IF it.upgrades.isArray THEN it.upgrades.items ELSE <<>>
        upTo[i \in 0..Len(ups)] ==
            IF i = 0 THEN <<>>
            ELSE upTo[i - 1] \o
                     (IF ups[i].property_upgrades.isArray
                      THEN ups[i].property_upgrades.items ELSE <<>>)
    IN upTo[Len(ups)]

\* the bonus of the last entry of a list that passes a test, else undefined
LastBonus(entries, Test(_)) ==
    LET hits == {i \in 1..Len(entries) : Test(entries[i])}
    IN IF hits = {} THEN JUndefined
       ELSE entries[CHOOSE i \in hits : \A j \in hits : j <= i].bonus

UpgradeNames == {"Foo", "Bar"}

\* C25 as stated: the lookup maps each property name to the bonus of the
\* last-declared property_upgrades entry carrying that name (a later entry
\* always overwrites an earlier one), and holds nothing of another item.
C25_AsStated ==
    (pc = "extract" /\ cursor > 1) =>
        \A name \in UpgradeNames :
            MapGet(upgradesMap, name) =
                LastBonus(DeclaredBonuses(item), LAMBDA e : e.name = JStr(name))

\* C25 amended: the lookup maps each property name to the bonus of the
\* last-declared entry that carries that name and a non-empty bonus: such an
\* entry overwrites every earlier one, while an entry with an empty bonus is
\* skipped and leaves the earlier bonus in place. The lookup is rebuilt from
\* the item's own upgrades on every call, so it never holds a bonus of the
\* item extracted before, and the stats come from this lookup.
C25_LastUsableBonusWins ==
    (pc = "extract" /\ cursor > 1) =>
        /\ \A name \in UpgradeNames :
               MapGet(upgradesMap, name) =
                   LastBonus(DeclaredBonuses(item),
                             LAMBDA e : e.name = JStr(name) /\ e.bonus # JStr(""))
        /\ DOMAIN upgradesMap \subseteq UpgradeNames
        /\ \A i \in 1..Len(out) :
               out[i].value = MapGet(upgradesMap, out[i].label).s

\* after an item with Foo bonuses 9 then 7, an item without upgrades: the
\* second call sees no bonus and extracts nothing
C25_Witness ==
    /\ pc = "extract"
    /\ cursor = 3
    /\ allItems[1].upgrades =
           ArrayOf(<<UpgradeOf(<<Bonus("Foo", "9")>>), UpgradeOf(<<Bonus("Foo", "7")>>)>>)
    /\ allItems[2].upgrades = NoArray
    /\ upgradesMap = EmptyMap
    /\ out = <<>>

-----------------------------------------------------------------------------
(* Claims about the agreement of the two extractors *)

\* every section of the item is 'active', 'passive', 'conditional', 'innate'
\* or has no type
OnlyKnownSections(it) ==
    \A i \in 1..Len(ListOrEmpty(it.tooltip_sections)) :
        ListOrEmpty(it.tooltip_sections)[i].section_type
            \in {JUndefined, JStr(""), JStr("active"), JStr("passive"),
                 JStr("conditional"), JStr("innate")}

\* the stats of the flat list that carry a section tag, in order
TaggedStats(stats, tag) == SelectSeq(stats, LAMBDA st : st.section = tag)

\* C26: for an item whose sections are 'active', 'passive', 'conditional',
\* 'innate' or untyped, the stats of the stats blocks of passiveBlocks, in
\* block order, are the stats tagged 'passive' of extractStats' flat list, and
\* those of activeBlocks the ones tagged 'active': same stats, same order,
\* same field values.
C26_BlocksAgreeWithFlatList ==
    (pc = "assembled" /\ OnlyKnownSections(item)) =>
        /\ BlockStats(out.passiveBlocks) = TaggedStats(out.stats, "passive")
        /\ BlockStats(out.activeBlocks) = TaggedStats(out.stats, "active")

\* an untyped section with three stats after an active section with one
C26_Witness ==
    /\ pc = "assembled"
    /\ item.tooltip_sections =
           ArrayOf(<<Section(JStr("active"), AttrsTextStatText),
                     Section(JUndefined, AttrsThreeRoles)>>)
    /\ item.properties = Bag(GoodFoo, FlaggedBar)
    /\ Len(BlockStats(out.activeBlocks)) = 1
    /\ Len(BlockStats(out.passiveBlocks)) = 3
    /\ BlockStats(out.passiveBlocks)[2].isImportant = JBool(TRUE)
    /\ Len(out.stats) = 4

-----------------------------------------------------------------------------
(* Claims about the entries of upgradesTo *)

\* how often b's class_name occurs in a's component_items
Occurrences(a, b) ==
    IF a.component_items.isArray /\ b.class_name.k = "string"
    THEN Cardinality({k \in 1..Len(a.component_items.items) :
                         a.component_items.items[k] = b.class_name.s})
    ELSE 0

\* C27: every entry of an upgradesTo list is backed by a real reference: B's
\* list holds {id: A.id, name: A.displayName} as often as B's class_name
\* occurs in the component_items of the processed item A, and holds nothing
\* else; an unresolved reference (placeholder with id 0) adds no entry to any
\* processed item.
C27_AsStated ==
    Loaded =>
        \A b \in 1..Len(shopItems) :
            LET list == processed[run][b].upgradesTo
            IN /\ \A a \in 1..Len(shopItems) :
                      Cardinality({e \in 1..Len(list) :
                                      list[e] = [id |-> shopItems[a].id,
                                                 name |-> processed[run][a].displayName]})
                          = Occurrences(shopItems[a], shopItems[b])
               /\ \A e \in 1..Len(list) :
                      \E a \in 1..Len(shopItems) :
                          list[e] = [id |-> shopItems[a].id,
                                     name |-> processed[run][a].displayName]

-----------------------------------------------------------------------------
(* Claims about the two chains of extractDescriptions taken together *)

\* C28: the two chains never both take description.desc. The texts of the
\* fields are pairwise different, so a description equal to the non-empty main
\* field was taken from it: passiveDescription is the main field only for an
\* item that is neither active-capable nor only-active-sections,
\* activeDescription only for an item that is one of the two, and never both.
C28_MainDescGoesOneWay ==
    (pc = "descriptions done" /\ MainField(item) # "") =>
        /\ ~(/\ out.passiveDescription = MainField(item)
             /\ out.activeDescription = MainField(item))
        /\ out.passiveDescription = MainField(item) =>
               (~ActiveCapable(item) /\ ~OnlyActiveSections(item))
        /\ out.activeDescription = MainField(item) =>
               (ActiveCapable(item) \/ OnlyActiveSections(item))

C28_Witness ==
    /\ pc = "descriptions done"
    /\ ~ActiveCapable(item)
    /\ OnlyActiveSections(item)
    /\ item.description.desc = JStr(PlainMain)
    /\ PassiveField(item) = ""
    /\ ActiveField(item) = ""
    /\ out.activeDescription = PlainMain
    /\ out.passiveDescription = ""

\* the five sources the chains read
ChainSources(it) ==
    {MainField(it), PassiveField(it), ActiveField(it), PassiveLocText(it),
     ActiveLocText(it)}

\* description.english or, failing that, description.tooltip
EnglishOrTooltip(it) ==
    IF TextOf(it.description.english) # "" THEN TextOf(it.description.english)
    ELSE TextOf(it.description.tooltip)

\* C29: the safety net acts only when desc, the passive field, the active
\* field and both joined loc_string fallbacks are all empty. When one of the
\* five is non-empty the result is what the two chains produced, and one of the
\* two is non-empty; when all are empty the only text in the result is
\* description.english or, failing that, description.tooltip.
C29_SafetyNetOnlyWhenAllEmpty ==
    pc = "descriptions done" =>
        IF ChainSources(item) # {""}
        THEN /\ out.passiveDescription = PassiveChainAsClaimed(item)
             /\ out.activeDescription = ActiveChainAsClaimed(item)
             /\ out.passiveDescription # "" \/ out.activeDescription # ""
        ELSE {out.passiveDescription, out.activeDescription}
                 \in {{""}, {"", EnglishOrTooltip(item)}}

\* an active-capable item whose only source is passive loc_strings keeps an
\* empty activeDescription although description.english is there
C29_Witness ==
    /\ pc = "descriptions done"
    /\ ActiveCapable(item)
    /\ ChainSources(item) = {"", "P1<br><br>P2"}
    /\ item.description.english = JStr("English text.")
    /\ out.passiveDescription = "P1<br><br>P2"
    /\ out.activeDescription = ""

-----------------------------------------------------------------------------
(* Navigation: the callbacks of App that move between the cards and flip one.
   A callback closes over the state of the render that created it (`rendered`);
   the keyboard handler reads the refs, which an effect brings up to date
   after the render. State setters take effect in call order; a render and its
   effects are steps of their own, so callbacks of one render can run back to
   back. filteredItems is here an array of its own: the positions, in the
   published array, of the items it holds. Sounds and XR are left out. *)

CardItem(id, className, name, slot, itemTier) ==
    [RawLoadItem(id, JStr(className), JStr(name), NoArray)
        EXCEPT !.item_slot_type = JStr(slot), !.item_tier = JNum(itemTier)]

\* the payload behind the deck
DeckPayload ==
    <<CardItem(11, "upgrade_charlie", "Charlie", "weapon", 1),
      CardItem(12, "upgrade_alpha", "Alpha", "spirit", 2)>>

\* a.displayName.localeCompare(b.displayName) < 0 on the names of the deck
NameOrder == <<"Alpha", "Charlie">>
NameRank(name) == CHOOSE i \in 1..Len(NameOrder) : NameOrder[i] = name
NameBefore(a, b) == NameRank(a.displayName) < NameRank(b.displayName)

\* typeOrder[type] ?? 3
TypeOrder(type) ==
    CASE type = "weapon" -> 0
      [] type = "vitality" -> 1
      [] type = "spirit" -> 2
      [] OTHER -> 3

\* Array.prototype.sort with a comparator, which is stable; less[a, b] says
\* that the comparator puts a before b
StableSort(refs, less) ==
    LET n == Len(refs)
        Rank(i) ==
            Cardinality({j \in 1..n :
                \/ less[refs[j], refs[i]]
                \/ (~less[refs[i], refs[j]] /\ j < i)})
    IN [p \in 1..n |-> refs[CHOOSE i \in 1..n : Rank(i) = p - 1]]

\* what the filter/sort effect stores in filteredItems
FilterAndSort(list, cat, itemTier, order) ==
    LET all == [i \in 1..Len(list) |-> i]
        byCategory ==
            IF cat # "all" THEN SelectSeq(all, LAMBDA r : list[r].type = cat) ELSE all
        filtered ==
            IF itemTier # JNull
            THEN SelectSeq(byCategory, LAMBDA r : list[r].tier = itemTier)
            ELSE byCategory
        byName == [a \in 1..Len(list), b \in 1..Len(list) |-> NameBefore(list[a], list[b])]
        byType ==
            [a \in 1..Len(list), b \in 1..Len(list) |->
                \/ TypeOrder(list[a].type) < TypeOrder(list[b].type)
                \/ (TypeOrder(list[a].type) = TypeOrder(list[b].type) /\ byName[a, b])]
        byTier ==
            [a \in 1..Len(list), b \in 1..Len(list) |->
                \/ list[a].tier.n < list[b].tier.n
                \/ (list[a].tier.n = list[b].tier.n /\ byName[a, b])]
    IN CASE order = "name" -> StableSort(filtered, byName)
         [] order = "type" -> StableSort(filtered, byType)
         [] order = "tier" -> StableSort(filtered, byTier)
         [] OTHER -> filtered

\* the orders `sort(() => Math.random() - 0.5)` can leave an array in
Shuffles(refs) ==
    {p \in [1..Len(refs) -> {refs[i] : i \in 1..Len(refs)}] :
        \A i, j \in 1..Len(refs) : i # j => p[i] # p[j]}

Categories == {"all", "vitality"}
TierChoices == {JNull, JNum(1)}
SortChoices == {"default", "name", "type", "tier"}

\* the items are loaded, the first render and its effects are over
UIInit ==
    /\ NoStatCall
    /\ item = NoItem
    /\ pc = "ui"
    /\ allItems = DeckPayload
    /\ shopItems = DeckPayload
    /\ processed = [r \in 1..MaxRuns |->
                       IF r = 1
                       THEN [i \in 1..Len(DeckPayload) |->
                                ProcessShopItem(DeckPayload[i], DeckPayload)]
                       ELSE <<>>]
    /\ cursor = Len(DeckPayload) + 1
    /\ items = 1
    /\ filteredItems = [i \in 1..Len(DeckPayload) |-> i]
    /\ error = JNull
    /\ loading = FALSE
    /\ run = 1
    /\ currentIndex = 0
    /\ flippedIndex = JNull
    /\ category = "all"
    /\ tier = JNull
    /\ sort = "default"
    /\ rendered = Snapshot
    /\ currentIndexRef = 0
    /\ filteredItemsRef = filteredItems
    /\ effectDeps = FilterDeps(Snapshot)
    /\ queued = 0

\* what no callback of the navigation touches
UIFrame ==
    UNCHANGED <<pc, statVars, item, out, allItems, shopItems, processed, cursor,
                items, error, loading, run>>

\* the callbacks that can run before React renders again
MaxQueued == 2

\* an event reaches a callback before the pending render
Callback ==
    /\ pc = "ui"
    /\ queued < MaxQueued
    /\ queued' = queued + 1

\* the effects of the last render have run
EffectsDone ==
    /\ currentIndexRef = rendered.currentIndex
    /\ filteredItemsRef = rendered.filteredItems
    /\ effectDeps = FilterDeps(rendered)

\* React renders App again after a state change: new callbacks are created
Render ==
    /\ pc = "ui"
    /\ EffectsDone
    /\ rendered # Snapshot
    /\ rendered' = Snapshot
    /\ queued' = 0
    /\ UIFrame
    /\ UNCHANGED <<currentIndex, flippedIndex, filteredItems, category, tier, sort,
                   currentIndexRef, filteredItemsRef, effectDeps>>

\* the effects of the last render: the filter/sort effect when one of its deps
\* changed, and the effect that brings the refs up to date
RunEffects ==
    /\ pc = "ui"
    /\ ~EffectsDone
    /\ IF effectDeps # FilterDeps(rendered) /\ rendered.sort # "shuffled"
       THEN /\ filteredItems' = FilterAndSort(Published(items), rendered.category,
                                              rendered.tier, rendered.sort)
            /\ currentIndex' = 0
            /\ flippedIndex' = JNull
       ELSE UNCHANGED <<filteredItems, currentIndex, flippedIndex>>
    /\ currentIndexRef' = rendered.currentIndex
    /\ filteredItemsRef' = rendered.filteredItems
    /\ effectDeps' = FilterDeps(rendered)
    /\ UIFrame
    /\ UNCHANGED <<category, tier, sort, rendered, queued>>

\* goToPrevious, created by a render that saw closureIndex
goToPrevious(closureIndex) ==
    /\ closureIndex > 0
    /\ flippedIndex' = JNull
    /\ currentIndex' = closureIndex - 1

\* goToNext, created by a render that saw closureIndex and closureItems
goToNext(closureIndex, closureItems) ==
    /\ closureIndex < Len(closureItems) - 1
    /\ flippedIndex' = JNull
    /\ currentIndex' = closureIndex + 1

NavigationFrame ==
    /\ UIFrame
    /\ UNCHANGED <<filteredItems, category, tier, sort, rendered, currentIndexRef,
                   filteredItemsRef, effectDeps>>

\* the Previous button: onPrevious={goToPrevious}
ClickPrevious ==
    /\ Callback
    /\ goToPrevious(rendered.currentIndex)
    /\ NavigationFrame

\* the Next button: onNext={goToNext}
ClickNext ==
    /\ Callback
    /\ goToNext(rendered.currentIndex, rendered.filteredItems)
    /\ NavigationFrame

\* ArrowLeft: goToPreviousRef.current(), the callback the refs effect stored
KeyArrowLeft ==
    /\ Callback
    /\ goToPrevious(currentIndexRef)
    /\ NavigationFrame

\* ArrowRight: goToNextRef.current()
KeyArrowRight ==
    /\ Callback
    /\ goToNext(currentIndexRef, filteredItemsRef)
    /\ NavigationFrame

\* the toggle `prev => prev === index ? null : index`
ToggleFlip(prev, index) == IF prev = JNum(index) THEN JNull ELSE JNum(index)

\* the space key: toggle the flip of the card at currentIndexRef.current
KeySpace ==
    /\ Callback
    /\ flippedIndex' = ToggleFlip(flippedIndex, currentIndexRef)
    /\ UNCHANGED currentIndex
    /\ NavigationFrame

shuffle ==
    /\ Callback
    /\ \E shuffled \in Shuffles(rendered.filteredItems) :
           filteredItems' = shuffled
    /\ currentIndex' = 0
    /\ flippedIndex' = JNull
    /\ sort' = "shuffled"
    /\ UIFrame
    /\ UNCHANGED <<category, tier, rendered, currentIndexRef, filteredItemsRef,
                   effectDeps>>

reset ==
    /\ Callback
    /\ currentIndex' = 0
    /\ flippedIndex' = JNull
    /\ NavigationFrame

goToEnd ==
    /\ Callback
    /\ Len(rendered.filteredItems) - 1 >= 0
    /\ currentIndex' = Len(rendered.filteredItems) - 1
    /\ flippedIndex' = JNull
    /\ NavigationFrame

\* the positions of the cards the rendered carousel and slider show
RenderedIndexes == 0..(Len(rendered.filteredItems) - 1)

\* the carousel reports the card its scrolling has centred
handleCarouselIndexChange ==
    /\ Callback
    /\ \E newIndex \in RenderedIndexes :
           /\ newIndex # rendered.currentIndex
           /\ flippedIndex' = JNull
           /\ currentIndex' = newIndex
    /\ NavigationFrame

\* a card of the carousel is clicked
handleCarouselFlip ==
    /\ Callback
    /\ \E index \in RenderedIndexes :
           IF index # rendered.currentIndex
           THEN /\ flippedIndex' = JNull
                /\ currentIndex' = index
           ELSE /\ flippedIndex' = ToggleFlip(flippedIndex, index)
                /\ UNCHANGED currentIndex
    /\ NavigationFrame

\* the slider of Navigation: onSeek
Seek ==
    /\ Callback
    /\ \E index \in RenderedIndexes :
           /\ flippedIndex' = JNull
           /\ currentIndex' = index
    /\ NavigationFrame

FilterFrame ==
    /\ UIFrame
    /\ UNCHANGED <<currentIndex, flippedIndex, filteredItems, rendered,
                   currentIndexRef, filteredItemsRef, effectDeps>>

handleCategoryChange ==
    /\ Callback
    /\ \E newCategory \in Categories :
           /\ category' = newCategory
           /\ sort' = IF \/ rendered.sort = "shuffled"
                         \/ (newCategory # "all" /\ rendered.sort = "type")
                      THEN "default" ELSE sort
    /\ UNCHANGED tier
    /\ FilterFrame

handleTierChange ==
    /\ Callback
    /\ \E newTier \in TierChoices :
           /\ tier' = newTier
           /\ sort' = IF \/ rendered.sort = "shuffled"
                         \/ (newTier # JNull /\ rendered.sort = "tier")
                      THEN "default" ELSE sort
    /\ UNCHANGED category
    /\ FilterFrame

\* onSortChange={setSort}
SortChange ==
    /\ Callback
    /\ \E newSort \in SortChoices : sort' = newSort
    /\ UNCHANGED <<category, tier>>
    /\ FilterFrame

\* the button under 'No items found'
ClearFilters ==
    /\ Callback
    /\ Len(rendered.filteredItems) = 0
    /\ category' = "all"
    /\ tier' = JNull
    /\ UNCHANGED sort
    /\ FilterFrame

UINext ==
    \/ Render
    \/ RunEffects
    \/ ClickPrevious
    \/ ClickNext
    \/ KeyArrowLeft
    \/ KeyArrowRight
    \/ KeySpace
    \/ shuffle
    \/ reset
    \/ goToEnd
    \/ handleCarouselIndexChange
    \/ handleCarouselFlip
    \/ Seek
    \/ handleCategoryChange
    \/ handleTierChange
    \/ SortChange
    \/ ClearFilters

SpecUI == UIInit /\ [][UINext]_vars

-----------------------------------------------------------------------------
(* Claims about the navigation *)

\* C30: after any sequence of navigation callbacks, those of one render run
\* back to back included, flippedIndex is null or equal to currentIndex.
C30_AsStated ==
    pc = "ui" => (flippedIndex = JNull \/ flippedIndex = JNum(currentIndex))

====
